---- MODULE Spec2Model ----
(***************************************************************************)
(* Abrox group lounge: the synthetic activity simulation core.             *)
(*                                                                         *)
(*   Spec        one typing session of TypingEngine.simulate and its       *)
(*               controller (src/typing-engine.js)                         *)
(*   SpecOrch    SimulationEngine (src/stimulation-engine.js)              *)
(*   SpecPool    MessagePool and its generator view (src/unnamed/part_000) *)
(*                                                                         *)
(* Strings are sequences of UTF-16 code units; a code unit is written as   *)
(* the one-character string it stands for, or as its hexadecimal number.   *)
(* A text split by Array.from is a sequence of code points, each of which  *)
(* is a sequence of one or two code units.                                 *)
(***************************************************************************)
EXTENDS Integers, Sequences, FiniteSets, Bags, TLC

VARIABLES
  \* ---- TypingEngine.simulate: the closure of one session
  chars,          \* Array.from(String(text))
  isRTL,          \* isRTLText(text)
  allowGhost,     \* opts.allowGhost !== false
  interruptable,  \* opts.interruptable !== false
  hasActor,       \* person && (person.id || person.name)
  likelyCopyPaste,\* the copy-paste path was taken
  idx, typed, running, paused, abandoned, sent, interrupted,
  timers,         \* bag of pending setTimeout / requestAnimationFrame callbacks
  fatigueData,    \* FatigueStore._data[personId]: NoEntry or [v, t]
  now,            \* Date.now()
  \* ---- observation of the session's event stream
  out,            \* events emitted by the latest step, in order
  terminals,      \* terminal events emitted so far (counted up to MaxTerminals)
  lateEvents,     \* an event was emitted after a terminal event
  cancelled,      \* cancel() was called and no other controller method since
  held,           \* pause(true) was called on the running session, and no
                  \* controller method since
  calls,          \* controller calls made so far
  sends,          \* typing:send events emitted so far (counted up to MaxTerminals)
  normalTyped,    \* a character was typed by the per-character timer
  lastRemaining   \* `remaining` of the latest typing:progress event; -1: none yet

teVars == <<chars, isRTL, allowGhost, interruptable, hasActor, likelyCopyPaste,
            idx, typed, running, paused, abandoned, sent, interrupted,
            timers, fatigueData, now, out, terminals, lateEvents, cancelled, held, calls,
            sends, normalTyped, lastRemaining>>

VARIABLES
  \* ---- SimulationEngine
  simRunning,        \* _running
  intervalId,        \* _intervalId is not null
  intervalTimers,    \* the interval timers armed: setInterval less clearInterval
  docHidden,         \* document.hidden
  hasTypingEngine,   \* window.TypingEngine is loaded
  simulateThrows,    \* the TypingEngine that is loaded throws in simulate()
  bankThrows,        \* the message bank that was set throws in generate()
  people,            \* _people
  seenLimit,         \* _seenLimit
  seenSet, seenQueue,
  typingControllers, \* _typingControllers: ids of the stored controllers
  sessions,          \* the typing sessions started, by controller id
  cleanupTimers,     \* pending 60 s cleanup timers: [sid, due]
  seedTimers,        \* pending seed timers set by start()
  spikeTimers,       \* pending quick-reply timers set by _adminSpike
  lastAdminSpike,    \* _lastAdminSpike
  simNow,            \* Date.now(), in seconds
  delivered,         \* messages handed to the UI by _finalizeSend, in order
  stopMark,          \* sessions started before the latest effective stop(); -1
                     \* before it and after a later start() or triggerManual()
  tickProcessed,     \* the interval callback has called _maybeSpawn since the
                     \* visibility of the page last changed
  sessionCap         \* the number of sessions and of messages followed

seVars == <<simRunning, intervalId, intervalTimers, docHidden, hasTypingEngine, simulateThrows, bankThrows, people, seenLimit,
            seenSet, seenQueue, typingControllers, sessions, cleanupTimers,
            seedTimers, spikeTimers, lastAdminSpike, simNow, delivered, stopMark,
            tickProcessed, sessionCap>>

VARIABLES
  poolMeta,        \* MessagePool.meta: [size, seedBase, replyFraction]
  messages,    \* MessagePool.messages: empty, or the pool generatePool built
  spPeople,    \* window.SyntheticPeople.people
  poolNow,     \* Date.now(), in seconds
  fetched,     \* the latest range returned: [op, from, count, start, items]
  probe,       \* two calls of _generateMessageForIndex with the same arguments
  got          \* the latest answer of a single-index accessor: [op, i, size, result]

mpVars == <<poolMeta, messages, spPeople, poolNow, fetched, probe, got>>

VARIABLES
  \* ---- the fatigue stores
  fsStorage,   \* localStorage['abrox_typing_fatigue_v1']
  fsData,      \* FatigueStore._data
  psStorage,   \* localStorage['abrox_people_fatigue_v1']
  psFatigue,   \* PeopleStore._fatigue
  fsNow,       \* Date.now(), in hours
  fsResult,    \* the latest call of a store: its arguments and what it returned
  fsCalls      \* calls made so far

fsVars == <<fsStorage, fsData, psStorage, psFatigue, fsNow, fsResult, fsCalls>>

VARIABLES
  \* ---- SyntheticPeople
  sgMeta,      \* SyntheticPeople.meta: [size, seedBase, includeAdmin, includeMod]
  sgPeople,    \* SyntheticPeople.people
  sgProfiles,  \* localStorage['abrox.synthetic.profile.' + shortName], by member
  sgLast,      \* the latest generatePool call: its meta and the pool it returned
  sgEarlier,   \* the generatePool call before the latest one, likewise
  sgRuns       \* generatePool calls made so far

sgVars == <<sgMeta, sgPeople, sgProfiles, sgLast, sgEarlier, sgRuns>>

\* PeopleStore (src/synthetic-people.js, second script) and the page's member list
VARIABLES
  storePeople,    \* PeopleStore._store.people: name and role of each person
  storeSeed,      \* PeopleStore._store.meta.seed, 0 while undefined
  sampleMembers,  \* window.sampleMembers
  storeCalls      \* init and populateGlobal calls made so far

stVars == <<storePeople, storeSeed, sampleMembers, storeCalls>>

\* two SimulationEngine runs with their seeded generators
VARIABLES
  runA, runB,   \* of each run: _rng, _seenSet, _lastAdminSpike, the reply timers
                \* pending, and the actors picked and the texts generated so far
  runSteps      \* ticks and reply timers the two runs were driven by

rnVars == <<runA, runB, runSteps>>

\* a recency window built by makeLRU(cap)
VARIABLES
  lru,        \* the window: [cap, keys, set]
  inserted,   \* the fingerprints push added to it, in order
  evicted     \* the fingerprints push removed from it, in order

lrVars == <<lru, inserted, evicted>>

\* two seeded generators built from the same seed
VARIABLES
  genA, genB     \* of each: the function that built it, its state, the draws made

gnVars == <<genA, genB>>

\* MessageBank (message-bank.js) and its usage tracker
VARIABLES
  bankUsage,   \* MessageBank._usage: [counts, recent], the newest entry first
  bankCall     \* the latest getUniqueMessage call: the list before it, the
               \* candidates generated, and what it returned

mbVars == <<bankUsage, bankCall>>

VARIABLES
  \* ---- streams of the generator views of MessagePool
  viewStopped, \* `stopped` of the closure of createGeneratorView (part_000)
  streams,     \* the streams started, in order: the interval timer of each,
               \* its own `stopped` where it has one, its idx, what it emitted
  ticked       \* the latest firing of a stream's interval callback

gvVars == <<viewStopped, streams, ticked>>

VARIABLES
  \* ---- PeopleStore.populateGlobal followed pass by pass
  filling      \* the extension loop of the call in progress: fillTo, names,
               \* toAdd, offset and the passes made; on is FALSE between calls

pgVars == <<filling>>

VARIABLES
  \* ---- PeopleStore.sampleOnline
  crowd,       \* this._store.people: of each member the role, the energy in
               \* tenths and lastActive in ms
  crowdNow,    \* Date.now(), in ms
  sampled      \* the latest sampleOnline call: n, the members it returned (by
               \* their place in crowd) and lastActive of everyone before it

onVars == <<crowd, crowdNow, sampled>>

vars == <<teVars, seVars, mpVars, fsVars, sgVars, stVars, rnVars, lrVars, gnVars, mbVars, gvVars, pgVars, onVars>>

\* ------------------------------------------------------------------ bounds
MaxLen == 4
MaxCalls == 2
MaxTerminals == 2

\* -------------------------------------------------------- small utilities
Min(a, b) == IF a < b THEN a ELSE b
Max(a, b) == IF a > b THEN a ELSE b
clamp(v, a, b) == Min(Max(v, a), b)

RECURSIVE Flatten(_)
Flatten(ss) ==
  IF ss = <<>> THEN <<>>
  ELSE IF Len(ss) = 1 THEN ss[1]
  ELSE LET half == Len(ss) \div 2
       IN Flatten(SubSeq(ss, 1, half)) \o Flatten(SubSeq(ss, half + 1, Len(ss)))

\* String.prototype.slice(-n): the last n code units; slice(-0) is slice(0)
SliceLast(s, n) == IF n = 0 THEN s ELSE SubSeq(s, Len(s) - n + 1, Len(s))
\* String.prototype.slice(0, -n): all but the last n; slice(0, -0) is ''
SliceButLast(s, n) == IF n = 0 THEN <<>> ELSE SubSeq(s, 1, Len(s) - n)

\* ------------------------------------------------------------ input texts
\* "Hi.<U+1F600>ok": letters, punctuation and one emoji (a surrogate pair)
LTRPattern == << <<"H">>, <<"i">>, <<".">>, <<"D83D", "DE00">>, <<"o">>, <<"k">> >>
\* Hebrew letters shin, lamed, vav, final mem, space, alef
RTLPattern == << <<"05E9">>, <<"05DC">>, <<"05D5">>, <<"05DD">>, <<" ">>, <<"05D0">> >>

Texts == { SubSeq(p, 1, n) : p \in {LTRPattern, RTLPattern}, n \in 0..MaxLen }

\* a text long enough to be taken for pasted content
CopyPasteMinChars == 70
LongText == [i \in 1..(CopyPasteMinChars + 1) |-> <<"x">>]

\* opts.copyPasteThresh || 300
copyPasteThresh == 300
\* baseMsPerChar of an ordinary typist (60000 / 42 / 5) and of a profile whose
\* personality.wpmMult makes it very fast
SlowMsPerChar == 285
FastMsPerChar == 3

\* totalChars > 70 && predictedTotalMs < copyPasteThresh
LikelyCopyPaste(totalChars, baseMsPerChar) ==
  LET predictedTotalMs == totalChars * baseMsPerChar
  IN totalChars > CopyPasteMinChars /\ predictedTotalMs < copyPasteThresh

\* /[\u0591-\u07FF\uFB1D-\uFDFD\uFE70-\uFEFC]/.test(s), on the units of the model
isRTLText(cs) == \E i \in 1..Len(cs) : \E j \in 1..Len(cs[i]) :
                    cs[i][j] \in {"05E9", "05DC", "05D5", "05DD", "05D0"}

\* /[.!?]/.test(ch)
IsSentenceEnd(ch) == \E j \in 1..Len(ch) : ch[j] \in {".", "!", "?"}

\* ------------------------------------------------------------ FatigueStore
NoEntry == [v |-> -1, t |-> -1]
\* fatigue is held in thousandths; the clock counts hours
FatigueRecoveryPerHour == 80
FatigueIncreasePerSession == 60

FatigueGet(d, t) ==
  IF d = NoEntry THEN 0
  ELSE Max(0, clamp(d.v - (t - d.t) * FatigueRecoveryPerHour, 0, 1000))

\* increase without its clamp
FatigueIncrease_Unclamped(d, t, amount) ==
  [v |-> FatigueGet(d, t) + amount, t |-> t]

FatigueIncrease(d, t, amount) ==
  [v |-> clamp(FatigueGet(d, t) + amount, 0, 1000), t |-> t]

\* ------------------------------------------------------------------ events
\* detail of an event: typed so far, chars.length - idx, typed.length, the text
\* carried (typing:send only), and the distinguishing meta / reason field
Ev(name, ty, ix, meta) ==
  [name |-> name, typed |-> ty, remaining |-> Len(chars) - ix,
   tlen |-> Len(ty), text |-> <<>>, meta |-> meta]
EvSend(ty, ix, meta) ==
  [name |-> "typing:send", typed |-> ty, remaining |-> Len(chars) - ix,
   tlen |-> Len(ty), text |-> Flatten(chars), meta |-> meta]

TerminalNames == {"typing:send", "typing:abandoned", "typing:stop"}

RECURSIVE CountTerminal(_)
CountTerminal(es) ==
  IF es = <<>> THEN 0
  ELSE (IF Head(es).name \in TerminalNames THEN 1 ELSE 0) + CountTerminal(Tail(es))

\* an event of es that comes after a terminal event (one of es, or an earlier one)
HasLate(es, before) ==
  \E i \in 1..Len(es) :
     \/ before > 0
     \/ \E j \in 1..(i - 1) : es[j].name \in TerminalNames

\* the events of es with the given name
Named(es, name) == SelectSeq(es, LAMBDA e : e.name = name)

\* the observer: what the events of this step add to the history
Observe(es) ==
  /\ out' = es
  /\ terminals' = Min(MaxTerminals, terminals + CountTerminal(es))
  /\ lateEvents' = (lateEvents \/ HasLate(es, terminals))
  /\ sends' = Min(MaxTerminals, sends + Len(Named(es, "typing:send")))
  /\ normalTyped' = (normalTyped \/ \E i \in 1..Len(es) :
                                       es[i].name = "typing:progress" /\ es[i].meta = "")
  /\ lastRemaining' = LET progress == Named(es, "typing:progress")
                      IN IF progress = <<>> THEN lastRemaining
                         ELSE progress[Len(progress)].remaining

\* ------------------------------------------------------------------ timers
Timer(kind) == [kind |-> kind, ch |-> <<>>, deleted |-> <<>>, rIdx |-> 0]
CharTimer(ch) == [kind |-> "char", ch |-> ch, deleted |-> <<>>, rIdx |-> 0]
RetypeTimer(deleted, rIdx) == [kind |-> "retype", ch |-> <<>>, deleted |-> deleted, rIdx |-> rIdx]

Pending(t) == BagIn(t, timers)
Fired(t) == timers (-) SetToBag({t})
Add(bag, t) == bag (+) SetToBag({t})

\* scheduleNext(): nothing once the session stopped running
scheduleNext(bag, isRunning) == IF isRunning THEN Add(bag, Timer("tick")) ELSE bag

\* chars[idx], or for right-to-left text chars[chars.length - 1 - idx]
CharAt(ix) == IF isRTL THEN chars[Len(chars) - ix] ELSE chars[ix + 1]

RECURSIVE TakeChars(_, _)
\* the code units of the n characters typed from cursor ix on
TakeChars(ix, n) == IF n = 0 THEN <<>> ELSE CharAt(ix) \o TakeChars(ix + 1, n - 1)

\* Math.max(1, Math.floor(rng() * Math.min(6, chars.length)))
GhostLens == { Max(1, f) : f \in 0..Max(0, Min(6, Len(chars)) - 1) }

sessionFlags == <<running, paused, abandoned, sent, interrupted>>
inputs == <<chars, isRTL, allowGhost, interruptable, hasActor, likelyCopyPaste>>

\* ----------------------------------------------------------------- stepOnce
\* the part of stepOnce after the ghost-typing block: a backspace correction,
\* the next character, or the final think time
StepTyping(rest, ty, ix, evs) ==
  \/ \* idx > 2 && rng() < backspaceChance * ...
     /\ ix > 2
     /\ \E del \in {1, 2} :
          LET toDelete == Min(del, Len(ty))
              deleted == SliceLast(ty, toDelete)
              ty2 == SliceButLast(ty, toDelete)
          IN /\ typed' = ty2
             /\ idx' = ix
             /\ timers' = Add(rest, RetypeTimer(deleted, 0))
             /\ Observe(evs \o <<Ev("typing:progress", ty2, ix, "correction")>>)
     /\ UNCHANGED <<sessionFlags, fatigueData>>
  \/ /\ typed' = ty
     /\ idx' = ix
     /\ Observe(evs)
     /\ IF ix < Len(chars)
          THEN /\ timers' = Add(rest, CharTimer(CharAt(ix)))
               /\ UNCHANGED sessionFlags
          ELSE IF ~sent
          THEN /\ timers' = Add(rest, Timer("final"))
               /\ UNCHANGED sessionFlags
          ELSE /\ timers' = rest
               /\ running' = FALSE
               /\ UNCHANGED <<paused, abandoned, sent, interrupted>>
     /\ UNCHANGED fatigueData

stepOnce ==
  /\ Pending(Timer("raf"))
  /\ LET rest == Fired(Timer("raf")) IN
     IF ~running
     THEN /\ timers' = rest
          /\ Observe(<<>>)
          /\ UNCHANGED <<idx, typed, sessionFlags, fatigueData>>
     ELSE IF paused
     THEN /\ timers' = scheduleNext(rest, running)
          /\ Observe(<<Ev("typing:pause", typed, idx, "manual-pause")>>)
          /\ UNCHANGED <<idx, typed, sessionFlags, fatigueData>>
     ELSE IF abandoned
     THEN /\ running' = FALSE
          /\ timers' = rest
          /\ Observe(<<Ev("typing:abandoned", typed, idx, "")>>)
          /\ UNCHANGED <<idx, typed, paused, abandoned, sent, interrupted, fatigueData>>
     ELSE \/ \* allowGhost && rng() < ghostTypingChance * (1 - fatigue)
             /\ allowGhost
             /\ \E ghostLen \in GhostLens :
                  LET n == Min(ghostLen, Len(chars) - idx)
                      tyG == typed \o TakeChars(idx, n)
                      ixG == idx + n
                      evG == <<Ev("typing:progress", tyG, ixG, "ghost")>>
                  IN \/ \* rng() < 0.5: pause, then resume or abandon later
                        /\ paused' = TRUE
                        /\ typed' = tyG
                        /\ idx' = ixG
                        /\ timers' = scheduleNext(Add(rest, Timer("ghost")), running)
                        /\ Observe(evG)
                        /\ UNCHANGED <<running, abandoned, sent, interrupted, fatigueData>>
                     \/ StepTyping(rest, tyG, ixG, evG)
          \/ StepTyping(rest, typed, idx, <<>>)
  /\ UNCHANGED <<inputs, now, cancelled, held, calls>>

\* setTimeout(() => { requestAnimationFrame(stepOnce); }, ...)
tickTimer ==
  /\ Pending(Timer("tick"))
  /\ timers' = Add(Fired(Timer("tick")), Timer("raf"))
  /\ Observe(<<>>)
  /\ UNCHANGED <<inputs, idx, typed, sessionFlags, fatigueData, now, cancelled, held, calls>>

\* --------------------------------------------------------- timer callbacks
frame == <<inputs, now, cancelled, held, calls>>

\* the per-character timer set by stepOnce
charTimer ==
  \E t \in BagToSet(timers) :
    /\ t.kind = "char"
    /\ LET rest == Fired(t) IN
       IF ~running \/ paused
       THEN /\ timers' = scheduleNext(rest, running)
            /\ Observe(<<>>)
            /\ UNCHANGED <<idx, typed>>
       ELSE /\ typed' = typed \o t.ch
            /\ idx' = idx + 1
            /\ Observe(<<Ev("typing:progress", typed \o t.ch, idx + 1, "")>>)
            /\ \/ \* /[.!?]/.test(ch) && rng() < 0.42: punctuation hesitation
                  /\ IsSentenceEnd(t.ch)
                  /\ timers' = Add(rest, Timer("punct"))
               \/ timers' = scheduleNext(rest, running)
    /\ UNCHANGED <<sessionFlags, fatigueData, frame>>

\* setTimeout(scheduleNext, p)
punctTimer ==
  /\ Pending(Timer("punct"))
  /\ timers' = scheduleNext(Fired(Timer("punct")), running)
  /\ Observe(<<>>)
  /\ UNCHANGED <<idx, typed, sessionFlags, fatigueData, frame>>

\* retype: one deleted code unit per firing, then scheduleNext
retypeTimer ==
  \E t \in BagToSet(timers) :
    /\ t.kind = "retype"
    /\ LET rest == Fired(t) IN
       IF ~running
       THEN /\ timers' = rest
            /\ Observe(<<>>)
            /\ UNCHANGED typed
       ELSE IF t.rIdx >= Len(t.deleted)
       THEN /\ timers' = scheduleNext(rest, running)
            /\ Observe(<<>>)
            /\ UNCHANGED typed
       ELSE /\ typed' = Append(typed, t.deleted[t.rIdx + 1])
            /\ timers' = Add(rest, RetypeTimer(t.deleted, t.rIdx + 1))
            /\ Observe(<<Ev("typing:progress", Append(typed, t.deleted[t.rIdx + 1]),
                            idx, "correction")>>)
    /\ UNCHANGED <<idx, sessionFlags, fatigueData, frame>>

\* the timer of a ghost pause if it left `paused` set
ghostTimer_StaysPaused ==
  /\ Pending(Timer("ghost"))
  /\ timers' = Fired(Timer("ghost"))
  /\ \/ abandoned' = TRUE
     \/ UNCHANGED abandoned
  /\ Observe(<<>>)
  /\ UNCHANGED <<idx, typed, running, paused, sent, interrupted, fatigueData, frame>>

\* the timer of a ghost pause: paused = false; if (rng() < 0.25) abandoned = true
ghostTimer ==
  /\ Pending(Timer("ghost"))
  /\ timers' = Fired(Timer("ghost"))
  /\ paused' = FALSE
  /\ \/ abandoned' = TRUE
     \/ UNCHANGED abandoned
  /\ Observe(<<>>)
  /\ UNCHANGED <<idx, typed, running, sent, interrupted, fatigueData, frame>>

\* FatigueStore.increase for the session's actor, when it has an id or a name
IncreaseFatigue(amount) ==
  IF hasActor THEN fatigueData' = FatigueIncrease(fatigueData, now, amount)
  ELSE UNCHANGED fatigueData

\* the think-time timer without its `if (!running) return` guard
finalTimer_Unguarded ==
  /\ Pending(Timer("final"))
  /\ timers' = Fired(Timer("final"))
  /\ \/ /\ allowGhost
        /\ abandoned' = TRUE
        /\ running' = FALSE
        /\ Observe(<<Ev("typing:abandoned", typed, idx, "")>>)
        /\ UNCHANGED <<paused, sent, interrupted, fatigueData>>
     \/ /\ sent' = TRUE
        /\ running' = FALSE
        /\ Observe(<<EvSend(typed, idx, "")>>)
        /\ IncreaseFatigue(FatigueIncreasePerSession)
        /\ UNCHANGED <<paused, abandoned, interrupted>>
  /\ UNCHANGED <<idx, typed, frame>>

\* the think-time timer after the last character: abandon, or send
finalTimer ==
  /\ Pending(Timer("final"))
  /\ timers' = Fired(Timer("final"))
  /\ IF ~running
     THEN /\ Observe(<<>>)
          /\ UNCHANGED <<sessionFlags, fatigueData>>
     ELSE \/ \* allowGhost && rng() < abandonChance * (1 + fatigue)
             /\ allowGhost
             /\ abandoned' = TRUE
             /\ running' = FALSE
             /\ Observe(<<Ev("typing:abandoned", typed, idx, "")>>)
             /\ UNCHANGED <<paused, sent, interrupted, fatigueData>>
          \/ /\ sent' = TRUE
             /\ running' = FALSE
             /\ Observe(<<EvSend(typed, idx, "")>>)
             /\ IncreaseFatigue(FatigueIncreasePerSession)
             /\ UNCHANGED <<paused, abandoned, interrupted>>
  /\ UNCHANGED <<idx, typed, frame>>

\* the grace timer set by interrupt()
graceTimer ==
  /\ Pending(Timer("grace"))
  /\ timers' = Fired(Timer("grace"))
  /\ IF ~running
     THEN /\ Observe(<<>>)
          /\ UNCHANGED sessionFlags
     ELSE /\ paused' = FALSE
          /\ abandoned' = TRUE
          /\ running' = FALSE
          /\ Observe(<<Ev("typing:abandoned", typed, idx, "")>>)
          /\ UNCHANGED <<sent, interrupted>>
  /\ UNCHANGED <<idx, typed, fatigueData, frame>>

\* the copy-paste path's only timer: the synthetic send
pasteTimer ==
  /\ Pending(Timer("paste"))
  /\ timers' = Fired(Timer("paste"))
  /\ Observe(<<EvSend(typed, idx, "copy-paste")>>)
  /\ IncreaseFatigue(FatigueIncreasePerSession \div 2)
  /\ UNCHANGED <<idx, typed, sessionFlags, frame>>

\* ------------------------------------------------------------- controller
\* a controller method is called; cancel() alone keeps `cancelled`, and
\* pause(true) on a running session alone keeps `held`
Called(isCancel, isHold) ==
  /\ calls < MaxCalls
  /\ calls' = calls + 1
  /\ cancelled' = isCancel
  /\ held' = (isHold /\ running)
  /\ UNCHANGED <<inputs, now>>

cancel ==
  /\ Called(TRUE, FALSE)
  /\ IF likelyCopyPaste
     THEN \* cancel: () => { /* nothing to cancel */ }
          /\ Observe(<<>>)
          /\ UNCHANGED running
     ELSE /\ running' = FALSE
          /\ Observe(<<Ev("typing:stop", typed, idx, "cancelled")>>)
  /\ UNCHANGED <<idx, typed, paused, abandoned, sent, interrupted, timers, fatigueData>>

interrupt ==
  /\ Called(FALSE, FALSE)
  /\ IF likelyCopyPaste \/ ~interruptable
     THEN /\ Observe(<<>>)
          /\ UNCHANGED <<paused, interrupted, timers>>
     ELSE /\ interrupted' = TRUE
          /\ paused' = TRUE
          /\ Observe(<<Ev("typing:pause", typed, idx, "interrupted")>>)
          /\ timers' = Add(timers, Timer("grace"))
  /\ UNCHANGED <<idx, typed, running, abandoned, sent, fatigueData>>

forceSend ==
  /\ Called(FALSE, FALSE)
  /\ IF likelyCopyPaste
     THEN \* forceSend: () => { emitEvent('typing:send', ...) }
          /\ Observe(<<EvSend(typed, idx, "copy-paste")>>)
          /\ UNCHANGED <<running, sent, fatigueData>>
     ELSE IF sent
     THEN /\ Observe(<<>>)
          /\ UNCHANGED <<running, sent, fatigueData>>
     ELSE /\ running' = FALSE
          /\ sent' = TRUE
          /\ Observe(<<EvSend(typed, idx, "forced")>>)
          /\ IncreaseFatigue(FatigueIncreasePerSession)
  /\ UNCHANGED <<idx, typed, paused, abandoned, interrupted, timers>>

\* pause(flag): defined by the character-level controller only
pause ==
  /\ ~likelyCopyPaste
  /\ \E flag \in BOOLEAN :
       /\ Called(FALSE, flag)
       /\ paused' = flag
       /\ Observe(<<Ev("typing:pause", typed, idx, IF flag THEN "manual" ELSE "resume")>>)
  /\ UNCHANGED <<idx, typed, running, abandoned, sent, interrupted, timers, fatigueData>>

\* =========================================================================
\* SimulationEngine (src/stimulation-engine.js): the orchestrator that picks
\* an actor, generates a text and starts a typing session for it.  A session
\* is followed here by its outcome only: the per-character steps are Spec's.
\* The page has no #typingRow element, so the typing-row helpers do nothing.
\* =========================================================================
MaxSessions == 2
MaxLoopSessions == 1  \* sessions followed where only the loop is observed
MaxSeedTimers == 2    \* seed timers pending at once
MaxElapsed == 61      \* seconds of wall-clock time followed
MaxSeenLimit == 1     \* the smaller of the two values of _seenLimit tried

Epoch == 120          \* Date.now() when the page loads, in seconds
ClockStep == 61        \* the clock is read at moments just over a minute apart
CleanupAfter == 60    \* the controller cleanup timer, 60000 ms
SpikeCooldown == 60   \* now() - _lastAdminSpike > 60000
DefaultSeenLimit == 25000
MaxRegenerations == 6

\* the members the engine was given: an administrator, a
\* member whose personality.wpmMult makes every text look pasted, and the user
Members ==
  << [name |-> "Ava",  role |-> "ADMIN",    msPerChar |-> SlowMsPerChar],
     [name |-> "Cy",   role |-> "VERIFIED", msPerChar |-> FastMsPerChar],
     [name |-> "You",  role |-> "VERIFIED", msPerChar |-> SlowMsPerChar] >>

\* a generated text: the template it came from and the number appended by the
\* de-duplication loop (0: none)
Text(tpl, tag) == [tpl |-> tpl, tag |-> tag]
\* "Quick poll - scalp or swing on BTC/USDT now?" and
\* "Signal alert: BTC/USDT - entry 20500.00 sl 20300.0000 tp 25000.00. Thoughts?"
Candidates == {Text("poll", 0), Text("signal", 0)}
Tags == {100}
TextLength(t) ==
  (IF t.tpl = "poll" THEN 44 ELSE 77) + (IF t.tag = 0 THEN 0 ELSE 4)

AllTexts == Candidates \cup { Text(c.tpl, n) : c \in Candidates, n \in Tags }

\* _pickActor: every member but "You" has a positive weight
PickActor == { people[i] : i \in { j \in 1..Len(people) : people[j].name # "You" } }

\* the de-duplication loop of _generateMessageFor: the texts it can end with
RECURSIVE Regenerate(_, _, _, _)
Regenerate(seen, candidate, final, attempts) ==
  IF final \in seen /\ attempts < MaxRegenerations
  THEN UNION { Regenerate(seen, candidate, Text(candidate.tpl, n), attempts + 1) : n \in Tags }
  ELSE { final }

\* _rememberSeen
rememberSeen(text) ==
  LET q == Append(seenQueue, text)
      added == seenSet \cup {text}
  IN IF Len(q) > seenLimit
     THEN /\ seenQueue' = Tail(q)
          /\ seenSet' = added \ {Head(q)}
     ELSE /\ seenQueue' = q
          /\ seenSet' = added

\* _generateMessageFor(person), yielding text
generateMessageFor(text) ==
  /\ \E candidate \in Candidates : text \in Regenerate(seenSet, candidate, candidate, 0)
  /\ rememberSeen(text)

\* _finalizeSend
Message(person, text) == [name |-> person.name, role |-> person.role, text |-> text]
finalizeSend(person, text) == delivered' = Append(delivered, Message(person, text))

\* room left for one more session or message in the window followed
CanStart == Len(sessions) < sessionCap /\ Len(delivered) < sessionCap

\* _startTypingFor(person, text); when simulate() throws no controller is
\* stored and no cleanup timer is set: the session is kept as "failed".
\* via tells the caller: a tick, the headline or a reply of an admin spike,
\* or triggerManual
startTypingFor(person, text, via) ==
  IF ~hasTypingEngine
  THEN /\ finalizeSend(person, text)
       /\ UNCHANGED <<sessions, typingControllers, cleanupTimers>>
  ELSE IF simulateThrows
  THEN /\ sessions' = Append(sessions,
            [person |-> person, text |-> text, st |-> "failed", via |-> via,
             paste |-> LikelyCopyPaste(TextLength(text), person.msPerChar)])
       /\ UNCHANGED <<typingControllers, cleanupTimers, delivered>>
  ELSE LET sid == Len(sessions) + 1 IN
       /\ sessions' = Append(sessions,
            [person |-> person, text |-> text, st |-> "typing", via |-> via,
             paste |-> LikelyCopyPaste(TextLength(text), person.msPerChar)])
       /\ typingControllers' = typingControllers \cup {sid}
       /\ cleanupTimers' = cleanupTimers \cup {[sid |-> sid, due |-> simNow + CleanupAfter]}
       /\ UNCHANGED delivered

\* Math.floor(rng() * 4) quick replies beyond the first two; the timers that do
\* not fit the window followed are left out
ReplyCounts == { Min(2 + k, sessionCap) : k \in 0..3 }

\* _adminSpike(adminPerson)
adminSpike(adminPerson) ==
  /\ \E headline \in AllTexts :
       /\ generateMessageFor(headline)
       /\ startTypingFor(adminPerson, headline, "headline")
  /\ IF hasTypingEngine /\ simulateThrows
     THEN UNCHANGED spikeTimers   \* the throw leaves _adminSpike before its loop
     ELSE \E replyCount \in ReplyCounts :
            spikeTimers' = Min(sessionCap, spikeTimers + replyCount)

\* _maybeSpawn
maybeSpawn ==
  IF Len(people) = 0
  THEN UNCHANGED <<seenSet, seenQueue, sessions, typingControllers, cleanupTimers,
                   delivered, spikeTimers, lastAdminSpike>>
  ELSE \/ \* rng() > chance, or no actor to pick
          UNCHANGED <<seenSet, seenQueue, sessions, typingControllers, cleanupTimers,
                      delivered, spikeTimers, lastAdminSpike>>
       \/ \E person \in PickActor :
            /\ ~bankThrows
            /\ CanStart
            /\ \/ /\ person.role = "ADMIN"
                  /\ simNow - lastAdminSpike > SpikeCooldown
                  /\ lastAdminSpike' = simNow
                  /\ adminSpike(person)
               \/ /\ \E text \in AllTexts :
                       /\ generateMessageFor(text)
                       /\ startTypingFor(person, text, "tick")
                  /\ UNCHANGED <<spikeTimers, lastAdminSpike>>
       \/ \* the message bank throws, before a text is remembered; on the spike
          \* path _lastAdminSpike is set before the bank is called
          \E person \in PickActor :
            /\ bankThrows
            /\ \/ UNCHANGED lastAdminSpike
               \/ /\ person.role = "ADMIN"
                  /\ simNow - lastAdminSpike > SpikeCooldown
                  /\ lastAdminSpike' = simNow
            /\ UNCHANGED <<seenSet, seenQueue, sessions, typingControllers, cleanupTimers,
                           delivered, spikeTimers>>

spawnVars == <<seenSet, seenQueue, sessions, typingControllers, cleanupTimers,
               delivered, spikeTimers, lastAdminSpike>>
setup == <<hasTypingEngine, simulateThrows, bankThrows, people, seenLimit, sessionCap>>

\* start() without its `if (this._running) return`
start_Unguarded ==
  /\ seedTimers + 2 <= MaxSeedTimers
  /\ simRunning' = TRUE
  /\ seedTimers' = seedTimers + 2
  /\ intervalId' = TRUE
  /\ intervalTimers' = intervalTimers + 1
  /\ stopMark' = -1
  /\ UNCHANGED <<spawnVars, setup, tickProcessed, docHidden, simNow>>

\* start()
start ==
  IF simRunning
  THEN UNCHANGED <<simRunning, seedTimers, intervalId, intervalTimers, stopMark,
                   spawnVars, setup, tickProcessed, docHidden, simNow>>
  ELSE /\ seedTimers + 2 <= MaxSeedTimers
       /\ simRunning' = TRUE
       /\ seedTimers' = seedTimers + 2
       /\ intervalId' = TRUE
       /\ intervalTimers' = intervalTimers + 1
       /\ stopMark' = -1
       /\ UNCHANGED <<spawnVars, setup, tickProcessed, docHidden, simNow>>

\* controller.cancel() of a stored controller
Cancelled(session) ==
  IF ~session.paste /\ session.st = "typing"
  THEN [session EXCEPT !.st = "stopped"]
  ELSE session

\* stop()
stop ==
  IF ~simRunning
  THEN UNCHANGED <<simRunning, seedTimers, intervalId, intervalTimers, stopMark,
                   spawnVars, setup, tickProcessed, docHidden, simNow>>
  ELSE /\ simRunning' = FALSE
       /\ intervalId' = FALSE   \* clearInterval(this._intervalId), when it is set
       /\ intervalTimers' = IF intervalId THEN intervalTimers - 1 ELSE intervalTimers
       /\ sessions' = [sid \in 1..Len(sessions) |->
                         IF sid \in typingControllers THEN Cancelled(sessions[sid])
                         ELSE sessions[sid]]
       /\ typingControllers' = {}
       /\ stopMark' = Len(sessions)
       /\ UNCHANGED <<seenSet, seenQueue, cleanupTimers, delivered, spikeTimers,
                      lastAdminSpike, seedTimers, setup, tickProcessed, docHidden, simNow>>

\* an interval callback without the try of scheduleInterval, in a host that
\* drops a timer whose callback failed: a tick that finds no people to
\* simulate, or in which a call throws, ends the loop
intervalTick_Halting ==
  /\ intervalTimers > 0
  /\ IF docHidden \/ ~simRunning
     THEN UNCHANGED <<spawnVars, tickProcessed, intervalTimers>>
     ELSE /\ maybeSpawn
          /\ tickProcessed' = TRUE
          /\ intervalTimers' = IF sessions' # sessions \/ delivered' # delivered
                               THEN intervalTimers ELSE intervalTimers - 1
  /\ UNCHANGED <<simRunning, intervalId, seedTimers, stopMark, setup, docHidden, simNow>>

\* the interval callback armed by scheduleInterval: document.hidden skips the
\* tick, and whatever fn() throws is caught and logged
intervalTick ==
  /\ intervalTimers > 0
  /\ IF docHidden \/ ~simRunning
     THEN UNCHANGED <<spawnVars, tickProcessed>>
     ELSE /\ maybeSpawn
          /\ tickProcessed' = TRUE
  /\ UNCHANGED <<simRunning, intervalId, intervalTimers, seedTimers, stopMark, setup, docHidden, simNow>>

\* setTimeout(() => this._maybeSpawn(), ...) of start()
seedTimer ==
  /\ seedTimers > 0
  /\ seedTimers' = seedTimers - 1
  /\ maybeSpawn
  /\ UNCHANGED <<simRunning, intervalId, intervalTimers, stopMark, setup, tickProcessed, docHidden, simNow>>

\* a quick-reply timer of _adminSpike
spikeReply ==
  /\ spikeTimers > 0
  /\ spikeTimers' = spikeTimers - 1
  /\ IF PickActor = {}
     THEN UNCHANGED <<seenSet, seenQueue, sessions, typingControllers, cleanupTimers, delivered>>
     ELSE /\ CanStart
          /\ \E replier \in PickActor : \E replyText \in AllTexts :
               /\ generateMessageFor(replyText)
               /\ startTypingFor(replier, replyText, "reply")
  /\ UNCHANGED <<lastAdminSpike, simRunning, intervalId, intervalTimers, seedTimers, stopMark, setup, tickProcessed,
                 docHidden, simNow>>

\* the cleanup timer of _startTypingFor
cleanupTimer ==
  \E t \in cleanupTimers :
    /\ simNow >= t.due
    /\ cleanupTimers' = cleanupTimers \ {t}
    /\ typingControllers' = typingControllers \ {t.sid}
    /\ UNCHANGED <<seenSet, seenQueue, sessions, delivered, spikeTimers, lastAdminSpike,
                   simRunning, intervalId, intervalTimers, seedTimers, stopMark, setup, tickProcessed, docHidden, simNow>>

\* a character-level session reaches its send (the final think-time timer,
\* typing-engine.js) and the engine's onEvent delivers the message
sessionSend ==
  \E sid \in 1..Len(sessions) :
    /\ ~sessions[sid].paste
    /\ sessions[sid].st = "typing"
    /\ sessions' = [sessions EXCEPT ![sid].st = "sent"]
    /\ finalizeSend(sessions[sid].person, sessions[sid].text)
    /\ UNCHANGED <<seenSet, seenQueue, typingControllers, cleanupTimers, spikeTimers,
                   lastAdminSpike, simRunning, intervalId, intervalTimers, seedTimers, stopMark, setup, tickProcessed,
                   docHidden, simNow>>

\* a character-level session is abandoned by its typist
sessionAbandon ==
  \E sid \in 1..Len(sessions) :
    /\ ~sessions[sid].paste
    /\ sessions[sid].st = "typing"
    /\ sessions' = [sessions EXCEPT ![sid].st = "abandoned"]
    /\ UNCHANGED <<seenSet, seenQueue, typingControllers, cleanupTimers, delivered,
                   spikeTimers, lastAdminSpike, simRunning, intervalId, intervalTimers, seedTimers,
                   stopMark, setup, tickProcessed, docHidden, simNow>>

\* the send timer of a copy-paste session fires
sessionPasteSend ==
  \E sid \in 1..Len(sessions) :
    /\ sessions[sid].paste
    /\ sessions[sid].st = "typing"
    /\ sessions' = [sessions EXCEPT ![sid].st = "sent"]
    /\ finalizeSend(sessions[sid].person, sessions[sid].text)
    /\ UNCHANGED <<seenSet, seenQueue, typingControllers, cleanupTimers, spikeTimers,
                   lastAdminSpike, simRunning, intervalId, intervalTimers, seedTimers, stopMark, setup, tickProcessed,
                   docHidden, simNow>>

\* triggerManual(personOrName, text)
triggerManual ==
  /\ CanStart
  /\ \E person \in (IF Len(people) = 0
                    THEN {[name |-> "Member", role |-> "VERIFIED", msPerChar |-> SlowMsPerChar]}
                    ELSE {people[i] : i \in 1..Len(people)}) :
       \E text \in Candidates : startTypingFor(person, text, "manual")
  /\ stopMark' = -1
  /\ UNCHANGED <<seenSet, seenQueue, spikeTimers, lastAdminSpike, simRunning, intervalId, intervalTimers,
                 seedTimers, setup, tickProcessed, docHidden, simNow>>

\* the page is hidden or shown again
visibilityChange ==
  /\ docHidden' = ~docHidden
  /\ tickProcessed' = FALSE
  /\ UNCHANGED <<spawnVars, simRunning, intervalId, intervalTimers, seedTimers, stopMark, setup, simNow>>

\* wall-clock time passes
simClock ==
  /\ simNow < Epoch + MaxElapsed
  /\ simNow' = simNow + ClockStep
  /\ UNCHANGED <<spawnVars, simRunning, intervalId, intervalTimers, seedTimers, stopMark, setup, tickProcessed, docHidden>>

\* =========================================================================
\* MessagePool (src/unnamed/part_000; the same generator is in the second
\* half of src/typing-engine.js).  Strings are sequences of UTF-16 code
\* units, written as numbers.  A 32-bit word is a record [hi, lo] of two
\* 16-bit halves.  Prices are carried in ten-thousandths and follow the upper
\* five bits of their draw; the clock and the time field count seconds.
\* =========================================================================
U16 == 65536

\* for (k = lo; k <= hi; k++) s = body(s, k), evaluated by halves; the test
\* on the first half has TLC evaluate it before the second half starts
RECURSIVE Loop(_, _, _, _)
Loop(body(_, _), s, lo, hi) ==
  IF lo > hi THEN s
  ELSE IF lo = hi THEN body(s, lo)
  ELSE LET half == Loop(body, s, lo, (lo + hi) \div 2)
       IN IF half = half THEN Loop(body, half, (lo + hi) \div 2 + 1, hi) ELSE s

\* a ^ b on four bits and on sixteen
Xor4 ==
  [a \in 0..15, b \in 0..15 |->
     ((a + b) % 2) + 2 * (((a \div 2) + (b \div 2)) % 2)
     + 4 * (((a \div 4) + (b \div 4)) % 2) + 8 * (((a \div 8) + (b \div 8)) % 2)]
Xor16(a, b) ==
  Xor4[a % 16, b % 16] + 16 * Xor4[(a \div 16) % 16, (b \div 16) % 16]
  + 256 * Xor4[(a \div 256) % 16, (b \div 256) % 16] + 4096 * Xor4[a \div 4096, b \div 4096]

Xor(x, y) == [hi |-> Xor16(x.hi, y.hi), lo |-> Xor16(x.lo, y.lo)]
\* n >>> 0, for 0 <= n < 2^31
Word(n) == [hi |-> n \div U16, lo |-> n % U16]
\* x << 13, x >>> 17 and x << 5 on 32 bits
Shl13(x) == [hi |-> (x.hi % 8) * 8192 + x.lo \div 8, lo |-> (x.lo % 8) * 8192]
Shr17(x) == [hi |-> 0, lo |-> x.hi \div 2]
Shl5(x) == [hi |-> (x.hi % 2048) * 32 + x.lo \div 2048, lo |-> (x.lo % 2048) * 32]

\* one call of the function returned by xorshift32: the next state, which
\* divided by 2^32 is the value returned
rnd(x) ==
  LET a == Xor(x, Shl13(x))
      b == Xor(a, Shr17(a))
  IN Xor(b, Shl5(b))

\* xorshift32(seed): the initial state; 0x811c9dc5 when the seed is 0
xorshift32(seed) == IF seed = 0 THEN [hi |-> 33052, lo |-> 40389] ELSE Word(seed)

\* Math.floor(r * n) for a draw r = x / 2^32
Floor(x, n) == (x.hi * n + (x.lo * n) \div U16) \div U16
\* r < num / den
Below(x, num, den) == x.hi * den + (x.lo * den) \div U16 < num * U16

pickFrom(arr, x) == arr[Floor(x, Len(arr)) + 1]

\* the UTF-16 code units of: BTC ETH SOL LTC DOGE XRP ADA BNB MATIC AVAX DOT LINK OP ARB
TOKENS ==
  << <<66, 84, 67>>,
     <<69, 84, 72>>,
     <<83, 79, 76>>,
     <<76, 84, 67>>,
     <<68, 79, 71, 69>>,
     <<88, 82, 80>>,
     <<65, 68, 65>>,
     <<66, 78, 66>>,
     <<77, 65, 84, 73, 67>>,
     <<65, 86, 65, 88>>,
     <<68, 79, 84>>,
     <<76, 73, 78, 75>>,
     <<79, 80>>,
     <<65, 82, 66>> >>

\* RSI MACD EMA50 EMA200 SMA20 OBV VWAP Volume
INDICATORS ==
  << <<82, 83, 73>>,
     <<77, 65, 67, 68>>,
     <<69, 77, 65, 53, 48>>,
     <<69, 77, 65, 50, 48, 48>>,
     <<83, 77, 65, 50, 48>>,
     <<79, 66, 86>>,
     <<86, 87, 65, 80>>,
     <<86, 111, 108, 117, 109, 101>> >>

\* 1m 5m 15m 1h 4h 1d 1w
TIMEFRAMES ==
  << <<49, 109>>,
     <<53, 109>>,
     <<49, 53, 109>>,
     <<49, 104>>,
     <<52, 104>>,
     <<49, 100>>,
     <<49, 119>> >>

\* buy sell long short swing scalp hodl
ORDERS ==
  << <<98, 117, 121>>,
     <<115, 101, 108, 108>>,
     <<108, 111, 110, 103>>,
     <<115, 104, 111, 114, 116>>,
     <<115, 119, 105, 110, 103>>,
     <<115, 99, 97, 108, 112>>,
     <<104, 111, 100, 108>> >>

\* the twenty phrase templates; a negative unit is a placeholder:
\* -1 {token}, -2 {stop}, -3 {tp}, -4 {indicator}, -5 {timeframe}
COMMON_PHRASES ==
  << <<65, 110, 121, 111, 110, 101, 32, 119, 97, 116, 99, 104, 105, 110, 103, 32, -1, 63>>,
     <<83, 101, 116, 32, 97, 32, 115, 116, 111, 112, 32, 97, 116, 32, -2, 46>>,
     <<84, 80, 32, 97, 116, 32, -3, 46>>,
     <<76, 111, 111, 107, 115, 32, 108, 105, 107, 101, 32, 97, 99, 99, 117, 109, 117, 108, 97, 116, 105, 111, 110, 32, 116, 111, 32, 109, 101, 46>>,
     <<84, 104, 105, 115, 32, 108, 111, 111, 107, 115, 32, 108, 105, 107, 101, 32, 97, 32, 114, 101, 116, 114, 97, 99, 101, 32, 8212, 32, 119, 97, 105, 116, 105, 110, 103, 32, 102, 111, 114, 32, 99, 111, 110, 102, 105, 114, 109, 97, 116, 105, 111, 110, 46>>,
     <<70, 79, 77, 79, 32, 105, 110, 99, 111, 109, 105, 110, 103, 32, 55357, 56960>>,
     <<68, 105, 97, 109, 111, 110, 100, 32, 104, 97, 110, 100, 115, 46>>,
     <<80, 97, 112, 101, 114, 32, 104, 97, 110, 100, 115, 32, 101, 118, 101, 114, 121, 119, 104, 101, 114, 101, 32, 55357, 56837>>,
     <<87, 97, 116, 99, 104, 105, 110, 103, 32, 116, 104, 101, 32, 111, 114, 100, 101, 114, 32, 98, 111, 111, 107, 32, 8212, 32, 115, 116, 114, 111, 110, 103, 32, 115, 101, 108, 108, 32, 119, 97, 108, 108, 46>>,
     <<71, 111, 111, 100, 32, 116, 105, 109, 101, 32, 116, 111, 32, 68, 67, 65, 63>>,
     <<84, 104, 97, 116, 32, 119, 97, 115, 32, 97, 32, 110, 97, 115, 116, 121, 32, 119, 105, 99, 107, 32, 111, 110, 32, 116, 104, 101, 32, 49, 104, 46>>,
     <<87, 104, 97, 108, 101, 32, 97, 108, 101, 114, 116, 32, 111, 110, 32, -1, 32, 55357, 56371>>,
     <<73, 73, 82, 67, 32, 116, 104, 97, 116, 32, 105, 110, 100, 105, 99, 97, 116, 111, 114, 32, 115, 105, 103, 110, 97, 108, 115, 32, 114, 101, 118, 101, 114, 115, 97, 108, 46>>,
     <<85, 115, 101, 32, 108, 105, 109, 105, 116, 32, 111, 114, 100, 101, 114, 115, 32, 105, 102, 32, 121, 111, 117, 32, 99, 97, 114, 101, 32, 97, 98, 111, 117, 116, 32, 112, 114, 105, 99, 101, 46>>,
     <<84, 104, 101, 32, 98, 111, 116, 32, 112, 114, 111, 100, 117, 99, 101, 100, 32, 97, 32, 110, 111, 105, 115, 121, 32, 115, 105, 103, 110, 97, 108, 32, 116, 111, 100, 97, 121, 46>>,
     <<65, 110, 121, 111, 110, 101, 32, 115, 104, 97, 114, 105, 110, 103, 32, 105, 110, 100, 105, 99, 97, 116, 111, 114, 115, 63, 32, 68, 77, 32, 109, 101, 46>>,
     <<84, 104, 105, 115, 32, 102, 101, 101, 108, 115, 32, 108, 105, 107, 101, 32, 97, 32, 102, 97, 107, 101, 111, 117, 116, 46>>,
     <<76, 70, 71, 32, 116, 111, 32, 116, 104, 101, 32, 109, 111, 111, 110, 32, 55357, 56960, 55357, 56462>>,
     <<84, 104, 97, 116, 32, 84, 65, 32, 108, 105, 110, 101, 115, 32, 117, 112, 32, 119, 105, 116, 104, 32, 119, 101, 101, 107, 108, 121, 32, 114, 101, 115, 105, 115, 116, 97, 110, 99, 101, 46>>,
     <<83, 109, 97, 108, 108, 32, 112, 111, 115, 105, 116, 105, 111, 110, 32, 111, 110, 108, 121, 32, 8212, 32, 116, 111, 111, 32, 114, 105, 115, 107, 121, 32, 102, 111, 114, 32, 109, 101, 46>> >>

\* chart.png screenshot.jpg trade.mp4 report.pdf indicator.png
ATTACH_TITLES ==
  << <<99, 104, 97, 114, 116, 46, 112, 110, 103>>,
     <<115, 99, 114, 101, 101, 110, 115, 104, 111, 116, 46, 106, 112, 103>>,
     <<116, 114, 97, 100, 101, 46, 109, 112, 52>>,
     <<114, 101, 112, 111, 114, 116, 46, 112, 100, 102>>,
     <<105, 110, 100, 105, 99, 97, 116, 111, 114, 46, 112, 110, 103>> >>

\* the eleven emoji, most of them surrogate pairs
EMOJI ==
  << <<55357, 56960>>,
     <<55357, 56462>>,
     <<55357, 56613>>,
     <<55357, 56521>>,
     <<55357, 56520>>,
     <<55358, 56598>>,
     <<55357, 56594>>,
     <<9888, 65039>>,
     <<9989>>,
     <<10060>>,
     <<55357, 56371>> >>

\* check signal buy sell watch nice yikes rekt hold wait now looks
CHAT_WORDS ==
  << <<99, 104, 101, 99, 107>>,
     <<115, 105, 103, 110, 97, 108>>,
     <<98, 117, 121>>,
     <<115, 101, 108, 108>>,
     <<119, 97, 116, 99, 104>>,
     <<110, 105, 99, 101>>,
     <<121, 105, 107, 101, 115>>,
     <<114, 101, 107, 116>>,
     <<104, 111, 108, 100>>,
     <<119, 97, 105, 116>>,
     <<110, 111, 119>>,
     <<108, 111, 111, 107, 115>> >>

\* the four question templates
QUESTIONS ==
  << <<65, 110, 121, 111, 110, 101, 32, 103, 111, 116, 32, 116, 104, 111, 117, 103, 104, 116, 115, 32, 111, 110, 32, -1, 63>>,
     <<87, 104, 111, 32, 101, 108, 115, 101, 32, 105, 115, 32, 104, 111, 108, 100, 105, 110, 103, 32, -1, 63>>,
     <<73, 115, 32, -4, 32, 98, 101, 97, 114, 105, 115, 104, 32, 111, 110, 32, -5, 63>>,
     <<74, 117, 115, 116, 32, 115, 97, 119, 32, 97, 32, 119, 104, 97, 108, 101, 32, 109, 111, 118, 101, 32, 111, 110, 32, -1>> >>

\* ------------------------------------------------------- number rendering
RECURSIVE Digits(_)
Digits(n) == IF n < 10 THEN <<48 + n>> ELSE Digits(n \div 10) \o <<48 + (n % 10)>>

\* toLocaleString(): groups of three digits separated by commas
RECURSIVE Grouped(_)
Grouped(n) ==
  IF n < 1000 THEN Digits(n)
  ELSE Grouped(n \div 1000) \o
       <<44, 48 + (n % 1000) \div 100, 48 + (n % 100) \div 10, 48 + (n % 10)>>

\* fmtPrice(v): Math.round(v * 100) / 100, then toLocaleString()
fmtPrice(v4) ==
  LET cents == (v4 + 50) \div 100
      frac == cents % 100
  IN Grouped(cents \div 100) \o
     (IF frac = 0 THEN <<>>
      ELSE IF frac % 10 = 0 THEN <<46, 48 + frac \div 10>>
      ELSE <<46, 48 + frac \div 10, 48 + (frac % 10)>>)

\* fmtPercent(p), for p in hundredths: toFixed(2) + '%'
fmtPercent(p) ==
  LET a == IF p < 0 THEN -p ELSE p
  IN (IF p < 0 THEN <<45>> ELSE <<>>) \o Digits(a \div 100) \o
     <<46, 48 + (a % 100) \div 10, 48 + (a % 10), 37>>

\* randPriceForToken(token, rnd), given the draw
randPriceForToken(token, x) ==
  LET base == IF token = TOKENS[1] THEN 300000000
              ELSE IF token = TOKENS[2] THEN 20000000
              ELSE IF token = TOKENS[5] THEN 800
              ELSE 1000000 * (1 + (token[1] % 7))
      step == x.hi \div 2048
      price == base - 6 * (base \div 100) + ((12 * (base \div 100)) * step) \div 32
  IN Max(1, price)

\* renderTemplate(template, env)
renderTemplate(template, env) ==
  LET put(acc, k) == acc \o (IF template[k] >= 0 THEN <<template[k]>> ELSE env[-template[k]])
  IN Loop(put, <<>>, 1, Len(template))

\* parts.join(' ')
Join(parts) ==
  LET put(acc, k) == acc \o <<32>> \o parts[k]
  IN IF parts = <<>> THEN <<>> ELSE Loop(put, parts[1], 2, Len(parts))

\* one round of the word loop of a chatty message: the PRNG state and the
\* parts after it
ChattyWord(s, w) ==
  LET a == rnd(s.x)
      b == rnd(a)
      c == rnd(b)
  IN IF Below(a, 13, 100) THEN [x |-> b, parts |-> Append(s.parts, pickFrom(TOKENS, b))]
     ELSE IF Below(b, 11, 100) THEN [x |-> c, parts |-> Append(s.parts, pickFrom(EMOJI, c))]
     ELSE [x |-> c, parts |-> Append(s.parts, pickFrom(CHAT_WORDS, c))]
\* the word loop, from PRNG state x
ChattyParts(x, words) == Loop(ChattyWord, [x |-> x, parts |-> <<>>], 1, words)

\* contentHash(s): h ^= c; h *= 16777619 on 32 bits, for every code unit
HashStep(h, c) ==
  LET lo == Xor16(h.lo, c)
      m == lo * 403
  IN [hi |-> (h.hi * 403 + m \div U16 + (lo % 256) * 256) % U16, lo |-> m % U16]
contentHash(s) ==
  LET mix(h, k) == HashStep(h, s[k])
  IN Loop(mix, [hi |-> 33052, lo |-> 40389], 1, Len(s))

\* 'msg_' + n
MsgId(n) == <<109, 115, 103, 95>> \o (IF n < 0 THEN <<45>> \o Digits(-n) ELSE Digits(n))

\* ------------------------------------------------- _generateMessageForIndex
SeedStride == 15721
SpanSeconds == 63072000    \* spanDays = 730
SizeGranule == 50          \* pool sizes are multiples of it; keeps i * span in range
AttachmentPct == 4         \* meta.attachmentFraction = 0.04
PinnedPer10000 == 8        \* meta.pinnedFraction = 0.0008
MaxReplySpan == 500
MinWords == 4
MaxWords == 28

\* the offset drawn without the bound i - 2
ReplyOffset_Unclamped(i, x) == 2 + Floor(x, MaxReplySpan)

\* 2 + Math.floor(rnd() * Math.min(500, i - 2)), given the draw
ReplyOffset(i, x) == 2 + Floor(x, Min(MaxReplySpan, i - 2))

\* the sender when SyntheticPeople has no people: Member_<n>, "Member <n>"
FallbackSender(i) ==
  [name |-> <<77, 101, 109, 98, 101, 114, 95>> \o Digits((i % 5000) + 1),
   first |-> <<77, 101, 109, 98, 101, 114>>, role |-> "VERIFIED"]

\* the states of the PRNG after each of its next n calls
Draws(x, n) ==
  LET call(s, k) == Append(s, rnd(s[k - 1]))
  IN Loop(call, <<rnd(x)>>, 2, n)

\* the sender, from the draws d: a member of SyntheticPeople.people, if any
Sender(i, ppl, d) ==
  IF Len(ppl) > 0 THEN ppl[Floor(d[1], Len(ppl)) + 1] ELSE FallbackSender(i)

\* fmtPrice(price * (1 + (rnd() * 0.08 + 0.02))), given the draw
TakeProfit(price, x) ==
  fmtPrice(price + 2 * (price \div 100) + ((8 * (price \div 100)) * (x.hi \div 2048)) \div 32)
\* fmtPrice(price * (1 - (rnd() * 0.12 + 0.01))), given the draw
StopLoss(price, x) ==
  fmtPrice(price - (price \div 100) - ((12 * (price \div 100)) * (x.hi \div 2048)) \div 32)
\* fmtPercent((rnd() - 0.5) * 20), given the draw
Percent(x) == fmtPercent((x.hi * 2000) \div U16 - 1000)

\* the template env, from the eight draws e that follow the sender's
EnvOf(token, price, e) ==
  [token |-> token, indicator |-> pickFrom(INDICATORS, e[2]),
   timeframe |-> pickFrom(TIMEFRAMES, e[3]), order |-> pickFrom(ORDERS, e[4]),
   price |-> fmtPrice(price), tp |-> TakeProfit(price, e[6]),
   stop |-> StopLoss(price, e[7]), pct |-> Percent(e[8])]
TokenEnv(token, e) == EnvOf(token, randPriceForToken(token, e[5]), e)
Env(e) == TokenEnv(pickFrom(TOKENS, e[1]), e)
\* what the placeholders -1 .. -5 of a template stand for
Slots(env) == <<env.token, env.stop, env.tp, env.indicator, env.timeframe>>

\* the text of the family tPick selects, and the PRNG state after it
Chatty(chat) == [x |-> chat.x, text |-> Join(chat.parts)]
Body(sender, env, tPick, next) ==
  IF Below(tPick, 42, 100)
  THEN [x |-> next, text |-> renderTemplate(pickFrom(COMMON_PHRASES, next), Slots(env))]
  ELSE IF Below(tPick, 72, 100)
  THEN Chatty(ChattyParts(next, Floor(next, MaxWords - MinWords) + MinWords))
  ELSE IF Below(tPick, 87, 100)
  THEN [x |-> tPick,
        text |-> sender.first \o <<32, 112, 111, 115, 116, 101, 100, 58, 32>> \o env.token
                 \o <<32>> \o env.order \o <<32, 64, 32>> \o env.price
                 \o <<32, 8212, 32, 84, 80, 32>> \o env.tp
                 \o <<32, 47, 32, 83, 76, 32>> \o env.stop \o <<32, 40>> \o env.pct \o <<41>>]
  ELSE [x |-> next, text |-> renderTemplate(pickFrom(QUESTIONS, next), Slots(env))]

\* what is drawn after the text, from the draws t: a counts the calls made up
\* to the attachment, r the calls made up to the reply
Reply(i, opts, t, a) == i > 8 /\ Below(t[a + 1], opts.replyFraction, 100)
AfterReply(i, opts, t, a, r) ==
  [attachment |-> IF a = 2 THEN pickFrom(ATTACH_TITLES, t[2]) ELSE <<>>,
   replyTo |-> IF Reply(i, opts, t, a) THEN MsgId(i - ReplyOffset(i, t[a + 2])) ELSE <<>>,
   pinned |-> Below(t[r + 1], PinnedPer10000, 10000),
   jitter |-> Floor(t[r + 2], 3600) - 1800,
   emoji |-> pickFrom(EMOJI, t[r + 3])]
AfterAttachment(i, opts, t, a) ==
  AfterReply(i, opts, t, a, IF Reply(i, opts, t, a) THEN a + 2 ELSE a + 1)
AfterText(i, opts, t) ==
  AfterAttachment(i, opts, t, IF Below(t[1], AttachmentPct, 100) THEN 2 ELSE 1)

\* the final message object, its time field still relative to Date.now()
Compose(i, opts, sender, text, rest) ==
  [id |-> MsgId(i + 1),
   name |-> sender.name,
   role |-> sender.role,
   text |-> IF Len(text) < 6 THEN text \o <<32>> \o rest.emoji ELSE text,
   time |-> (i * (SpanSeconds \div SizeGranule)) \div (Max(1, opts.size) \div SizeGranule)
            + rest.jitter - SpanSeconds,
   replyTo |-> rest.replyTo,
   pinned |-> rest.pinned,
   attachment |-> rest.attachment]
WithBody(i, opts, sender, body) ==
  Compose(i, opts, sender, body.text, AfterText(i, opts, Draws(body.x, 7)))
WithDraws(i, opts, ppl, d, own) ==
  WithBody(i, opts, Sender(i, ppl, d),
           Body(Sender(i, ppl, d), Env(SubSeq(d, own + 1, own + 8)), d[own + 9], d[own + 10]))

\* _generateMessageForIndex(i, opts) called while SyntheticPeople.people is
\* ppl; one more call of the PRNG comes first when a sender is picked
DrawMessage(i, opts, ppl) ==
  WithDraws(i, opts, ppl,
            Draws(xorshift32(opts.seedBase + i * SeedStride), 11),
            IF Len(ppl) > 0 THEN 1 ELSE 0)

\* ------------------------------------------------------------ generatePool
LruCap == 2048
MaxDedupe == 6
MinPoolSize == 50
MaxPoolSize == 500000

Range(s) == { s[k] : k \in 1..Len(s) }

\* while(keys.length > cap){ const rem = keys.shift(); set.delete(rem); }
RECURSIVE EvictTo(_, _)
EvictTo(keys, cap) == IF Len(keys) > cap THEN EvictTo(Tail(keys), cap) ELSE keys

\* lru.push(k) on the keys of the window of generatePool
Evict(keys) == EvictTo(keys, LruCap)
LruPush(keys, k) == IF k \in Range(keys) THEN keys ELSE Evict(Append(keys, k))

\* makeLRU(cap), has(k) and push(k) on a window l
makeLRU(cap) == [cap |-> cap, keys |-> <<>>, set |-> {}]
has(l, k) == k \in l.set

\* a push that removes the newest key instead of the oldest
push_NewestOut(l, k) ==
  IF has(l, k) THEN l
  ELSE LET kept == SubSeq(Append(l.keys, k), 1, Min(Len(l.keys) + 1, l.cap))
       IN [l EXCEPT !.keys = kept, !.set = Range(kept)]

push(l, k) ==
  IF has(l, k) THEN l
  ELSE LET kept == EvictTo(Append(l.keys, k), l.cap)
           removed == SubSeq(Append(l.keys, k), 1, Len(l.keys) + 1 - Len(kept))
       IN [l EXCEPT !.keys = kept, !.set = (l.set \cup {k}) \ Range(removed)]

\* the windows and fingerprints followed
MaxCap == 2
MaxKey == 3
MaxPushes == 5

\* const lru = makeLRU(cap)
lruMake ==
  \E cap \in 1..MaxCap :
    lru' = makeLRU(cap) /\ inserted' = <<>> /\ evicted' = <<>>

\* lru.push(k)
lruPush ==
  \E k \in 1..MaxKey :
    /\ Len(inserted) < MaxPushes
    /\ lru' = push(lru, k)
    /\ inserted' = IF has(lru, k) THEN inserted ELSE Append(inserted, k)
    /\ evicted' = evicted \o SelectSeq(Append(lru.keys, k), LAMBDA e : ~has(lru', e))

\* the text a pass of the dedupe loop gives m when it starts with that value
\* of attempts
Regenerated(i, attempts, opts, ppl) ==
  LET alt == DrawMessage(i + attempts + 1,
                         [opts EXCEPT !.seedBase = opts.seedBase + attempts + 1], ppl)
      tail == IF attempts % 2 = 0
              THEN <<32>> \o pickFrom(EMOJI, rnd(xorshift32(opts.seedBase + attempts + i)))
              ELSE <<>>
  IN alt.text \o tail

\* a dedupe loop that never regenerates
Dedupe_Never(text, attempts, i, keys, opts, ppl) == text

\* the dedupe loop of generatePool for index i: the text kept and its hash
RECURSIVE Dedupe(_, _, _, _, _, _)
Dedupe(text, attempts, i, keys, opts, ppl) ==
  IF contentHash(text) \in Range(keys) /\ attempts < MaxDedupe
  THEN Dedupe(Regenerated(i, attempts, opts, ppl), attempts + 1, i, keys, opts, ppl)
  ELSE text

\* ------------------------------------------------- the cases followed here
MaxPoolSize50s == 1        \* opts.size of generatePool, in units of SizeGranule
MaxPoolElapsed == 1        \* seconds the clock advances
MaxCount == 2              \* the longest range asked for
SeedBases == {4000, 2}
DefaultSize == 100000
DefaultSeedBase == 4000
ReplyFractions == {6, 100} \* meta.replyFraction, in percent
\* SyntheticPeople.people: not generated yet, or its two fixed members
PeopleLists ==
  { <<>>,
    << [name |-> <<80, 114, 111, 102, 105, 116, 95, 72, 117, 110, 116, 101, 114>>, first |-> <<80, 114, 111, 102, 105, 116>>, role |-> "ADMIN"],
       [name |-> <<75, 105, 116, 116, 121, 95, 83, 116, 97, 114>>, first |-> <<75, 105, 116, 116, 121>>, role |-> "MOD"] >> }
PoolSizes == { SizeGranule * k : k \in 1..MaxPoolSize50s }
MaxIndex == SizeGranule * MaxPoolSize50s - 1
OptionsOf(sizes) ==
  { [size |-> z, seedBase |-> b, replyFraction |-> r] :
      z \in sizes, b \in SeedBases, r \in ReplyFractions }
Options == OptionsOf(PoolSizes \cup {DefaultSize})

\* every message and pool of the cases followed, drawn once
Drawn == [i \in 0..(MaxIndex + MaxCount), opts \in Options, ppl \in PeopleLists |-> DrawMessage(i, opts, ppl)]

\* the loop of generatePool: arr and the keys of the LRU after it
FillPool(opts, ppl) ==
  LET fill(s, i) ==
        LET m == Drawn[i, opts, ppl]
            text == Dedupe(m.text, 0, i, s.keys, opts, ppl)
        IN [arr |-> Append(s.arr, [m EXCEPT !.text = text]),
            keys |-> LruPush(s.keys, contentHash(text))]
  IN Loop(fill, [arr |-> <<>>, keys |-> <<>>], 0, opts.size - 1).arr

Pools == [opts \in OptionsOf(PoolSizes), ppl \in PeopleLists |->
            FillPool(opts, ppl)]

\* const time = Math.round(earliest + frac * span + jitter), earliest = now - span
Stamp(m, nowv) == [m EXCEPT !.time = nowv + m.time]

\* _generateMessageForIndex(i, opts) when Date.now() is poolNow
generateMessageForIndex(i, opts) == Stamp(Drawn[i, opts, spPeople], poolNow)

\* MessagePool.messages.length
length == Len(messages)

\* MessagePool.generatePool(opts)
generatePool ==
  \E size \in {1} \cup PoolSizes, seedBase \in SeedBases :
    LET opts == [size |-> clamp(size, MinPoolSize, MaxPoolSize), seedBase |-> seedBase,
                 replyFraction |-> poolMeta.replyFraction]
    IN /\ poolMeta' = opts
       /\ messages' = [k \in 1..opts.size |-> Stamp(Pools[opts, spPeople][k], poolNow)]
       /\ UNCHANGED <<spPeople, poolNow, fetched, probe, got>>

\* indices asked for: below 0, inside the pool, and at its size
Starts == {-1, 37, MaxIndex + 1}
Counts == {MaxCount}

\* no call observed; one call is observed at a time
None == [calls |-> 0]

\* the range an accessor returned for the request (from, count)
Fetched(op, lazy, from, count, s, items) ==
  [calls |-> 1, op |-> op, lazy |-> lazy, opts |-> poolMeta, from |-> from,
   count |-> count, start |-> s, items |-> items]

\* for(let i = start; i < start + count; i++) out.push(_generateMessageForIndex(i, ...))
Generate(s, c) == [j \in 1..c |-> generateMessageForIndex(s + j - 1, poolMeta)]

\* MessagePool.getRange(from, count)
getRange ==
  \E from \in Starts, count \in Counts :
    /\ IF length > 0
       THEN LET s == clamp(from, 0, Max(0, length - 1))
                c == clamp(count, 0, length - s)
            IN fetched' = Fetched("getRange", FALSE, from, count, s,
                                  SubSeq(messages, s + 1, s + c))
       ELSE LET s == clamp(from, 0, Max(0, poolMeta.size - 1))
                c == clamp(count, 0, poolMeta.size - s)
            IN fetched' = Fetched("getRange", TRUE, from, count, s, Generate(s, c))
    /\ probe' = None /\ got' = None
    /\ UNCHANGED <<poolMeta, messages, spPeople, poolNow>>

\* createGeneratorView({}).getRange(from, count)
viewGetRange ==
  \E from \in Starts, count \in Counts :
    LET s == clamp(from, 0, Max(0, poolMeta.size - 1))
        c == clamp(count, 0, Max(0, poolMeta.size - s))
    IN /\ fetched' = Fetched("view.getRange", TRUE, from, count, s, Generate(s, c))
       /\ probe' = None /\ got' = None
       /\ UNCHANGED <<poolMeta, messages, spPeople, poolNow>>

\* createGeneratorView().getPage(from, count)
viewGetPage ==
  \E from \in Starts, count \in Counts :
    LET s == clamp(from, 0, Max(0, poolMeta.size - 1))
        c == clamp(count, 0, Max(0, poolMeta.size - s))
    IN /\ fetched' = Fetched("view.getPage", TRUE, from, count, s, Generate(s, c))
       /\ probe' = None /\ got' = None
       /\ UNCHANGED <<poolMeta, messages, spPeople, poolNow>>

\* the answer of a single-index accessor: null is <<>>, a message m is <<m>>
Got(op, i, result) == [calls |-> 1, op |-> op, i |-> i, size |-> poolMeta.size, result |-> result]

\* MessagePool.getMessageByIndex(i)
getMessageByIndex ==
  \E i \in Starts :
    /\ IF length > 0
       THEN got' = Got("getMessageByIndex", i,
                       IF i < 0 \/ i >= length THEN <<>>
                       ELSE SubSeq(messages, i + 1, i + 1))
       ELSE got' = Got("getMessageByIndex", i,
                       IF i < 0 THEN <<>> ELSE Generate(i, 1))
    /\ fetched' = None /\ probe' = None
    /\ UNCHANGED <<poolMeta, messages, spPeople, poolNow>>

\* createGeneratorView().getItem(i)
viewGetItem ==
  \E i \in Starts :
    /\ got' = Got("view.getItem", i,
                  IF i < 0 \/ i >= poolMeta.size THEN <<>>
                  ELSE <<generateMessageForIndex(i, poolMeta)>>)
    /\ fetched' = None /\ probe' = None
    /\ UNCHANGED <<poolMeta, messages, spPeople, poolNow>>

\* createGeneratorView({}).getMessageByIndex(i): the first call for an index,
\* and the same call made again
viewGetMessageByIndex ==
  /\ \/ \E i \in Starts :
          LET result == IF i < 0 THEN <<>> ELSE <<generateMessageForIndex(i, poolMeta)>>
          IN /\ got' = Got("view.getMessageByIndex", i, result)
             /\ probe' = IF result = <<>> THEN None
                         ELSE [calls |-> 1, i |-> i, opts |-> poolMeta,
                               first |-> result[1], second |-> result[1]]
             /\ fetched' = None
     \/ /\ probe.calls = 1
        /\ probe' = [probe EXCEPT !.calls = 2,
                                  !.second = generateMessageForIndex(probe.i, probe.opts)]
        /\ UNCHANGED <<fetched, got>>
  /\ UNCHANGED <<poolMeta, messages, spPeople, poolNow>>

\* wall-clock time passes
poolClock ==
  /\ poolNow < MaxPoolElapsed
  /\ poolNow' = poolNow + 1
  /\ UNCHANGED <<poolMeta, messages, spPeople, fetched, probe, got>>

\* =========================================================================
\* The fatigue stores: FatigueStore (src/typing-engine.js) and the fatigue
\* map of PeopleStore (src/synthetic-people.js), each persisted under its own
\* localStorage key.  Fatigue is held in thousandths and the clock counts
\* hours, as in FatigueGet.  Both files are classic scripts: an assignment to
\* a property of a primitive value is ignored, one to a property of null throws.
\* =========================================================================
MaxFatigueCalls == 2
MaxFatigueHours == 1

Ids == {"ava", "cy"}
NoEntries == [id \in Ids |-> NoEntry]

\* JavaScript values a fatigue key can hold: an object of entries, null, or a
\* value that is neither (true, 5, "abc")
Obj(map) == [kind |-> "object", map |-> map]
JsNull == [kind |-> "null", map |-> NoEntries]
Primitive == [kind |-> "primitive", map |-> NoEntries]
Thrown == [kind |-> "thrown", map |-> NoEntries]

\* a localStorage item: absent, text that is not JSON, or the JSON of a value
Absent == [kind |-> "absent", value |-> JsNull]
Unparsable == [kind |-> "unparsable", value |-> JsNull]
\* JSON.stringify(value)
Stringify(value) == [kind |-> "json", value |-> value]

\* JSON.parse(localStorage.getItem(key) || '{}')
ParseItem(item) ==
  IF item.kind = "absent" THEN Obj(NoEntries)
  ELSE IF item.kind = "unparsable" THEN Thrown
  ELSE item.value

\* d[personId]
Item(d, id) == IF d.kind = "object" THEN d.map[id] ELSE NoEntry
\* d[personId] = entry
Assign(d, id, entry) ==
  IF d.kind = "object" THEN Obj([d.map EXCEPT ![id] = entry]) ELSE d

\* FatigueStore._load
fsLoad(data, item) ==
  IF data.kind \in {"object", "primitive"} THEN data
  ELSE LET parsed == ParseItem(item)
       IN IF parsed.kind \in {"thrown", "null"} THEN Obj(NoEntries) ELSE parsed

\* loadFatigue() of PeopleStore
loadFatigue(item) ==
  LET parsed == ParseItem(item)
  IN IF parsed.kind = "thrown" THEN Obj(NoEntries) ELSE parsed

\* the arguments tried: scores below, inside and above [0, 1]; amounts of a
\* send (none given: the default; half of it), a negative and an oversized one
Scores == {-500, 400, 1700}
Amounts == {0, FatigueIncreasePerSession \div 2, -200, 1500}

Result(op, id, arg, value, threw) ==
  [op |-> op, id |-> id, arg |-> arg, value |-> value, threw |-> threw]
NoResult == Result("none", "ava", 0, 0, FALSE)

Returned(result) ==
  /\ fsCalls < MaxFatigueCalls
  /\ fsCalls' = fsCalls + 1
  /\ fsResult' = result
  /\ UNCHANGED fsNow

\* FatigueStore.get(personId)
get ==
  \E id \in Ids :
    LET d == fsLoad(fsData, fsStorage) IN
    /\ fsData' = d
    /\ Returned(Result("get", id, 0, FatigueGet(Item(d, id), fsNow), FALSE))
    /\ UNCHANGED <<fsStorage, psStorage, psFatigue>>

\* FatigueStore.increase(personId, amount)
increase ==
  \E id \in Ids, amount \in Amounts :
    LET d == fsLoad(fsData, fsStorage)
        entry == FatigueIncrease(Item(d, id), fsNow,
                                 IF amount = 0 THEN FatigueIncreasePerSession ELSE amount)
    IN /\ fsData' = Assign(d, id, entry)
       /\ fsStorage' = Stringify(Assign(d, id, entry))
       /\ Returned(Result("increase", id, amount, entry.v, FALSE))
       /\ UNCHANGED <<psStorage, psFatigue>>

\* FatigueStore.set(personId, v)
set ==
  \E id \in Ids, v \in Scores :
    LET d == fsLoad(fsData, fsStorage)
        entry == [v |-> clamp(v, 0, 1000), t |-> fsNow]
    IN /\ fsData' = Assign(d, id, entry)
       /\ fsStorage' = Stringify(Assign(d, id, entry))
       /\ Returned(Result("set", id, v, entry.v, FALSE))
       /\ UNCHANGED <<psStorage, psFatigue>>

\* PeopleStore.setFatigue(id, score)
setFatigue ==
  \E id \in Ids, score \in Scores :
    LET entry == [v |-> clamp(score, 0, 1000), t |-> fsNow] IN
    /\ IF psFatigue.kind = "null"
       THEN /\ Returned(Result("setFatigue", id, score, entry.v, TRUE))
            /\ UNCHANGED <<psStorage, psFatigue>>
       ELSE /\ psFatigue' = Assign(psFatigue, id, entry)
            /\ psStorage' = Stringify(Assign(psFatigue, id, entry))
            /\ Returned(Result("setFatigue", id, score, entry.v, FALSE))
    /\ UNCHANGED <<fsStorage, fsData>>

\* PeopleStore.getFatigue(id)
getFatigue ==
  \E id \in Ids :
    /\ IF psFatigue.kind = "null"
       THEN Returned(Result("getFatigue", id, 0, 0, TRUE))
       ELSE Returned(Result("getFatigue", id, 0,
                            IF Item(psFatigue, id) = NoEntry THEN 0
                            ELSE Item(psFatigue, id).v, FALSE))
    /\ UNCHANGED <<fsStorage, fsData, psStorage, psFatigue>>

\* the page is loaded again: both scripts run anew over the persisted keys
reload ==
  /\ fsCalls > 0
  /\ fsResult.op # "none"
  /\ fsData' = JsNull
  /\ psFatigue' = loadFatigue(psStorage)
  /\ fsResult' = NoResult
  /\ UNCHANGED <<fsStorage, psStorage, fsNow, fsCalls>>

\* wall-clock time passes
fatigueClock ==
  /\ fsNow < MaxFatigueHours
  /\ fsNow' = fsNow + 1
  /\ UNCHANGED <<fsStorage, fsData, psStorage, psFatigue, fsResult, fsCalls>>

\* =========================================================================
\* SyntheticPeople (src/synthetic-people.js): the deterministic member pool.
\* Its xorshift32 is the function of the same name above; strings are
\* sequences of UTF-16 code units.  A persisted profile is kept with its
\* fatigue in thousandths and its archetype and language as indices of
\* ARCHETYPES and LANGS.
\* =========================================================================
MaxPeople == 8       \* the larger of the pool sizes tried
MaxRuns == 2         \* generatePool calls followed

\* the 100 first names, Alex .. Ritu
FIRST ==
  << <<65, 108, 101, 120>>, <<83, 97, 109>>, <<84, 97, 121, 108, 111, 114>>, <<74, 111, 114, 100, 97, 110>>,
     <<77, 111, 114, 103, 97, 110>>, <<67, 97, 115, 101, 121>>, <<82, 105, 108, 101, 121>>, <<67, 97, 109, 101, 114, 111, 110>>,
     <<74, 97, 109, 105, 101>>, <<82, 111, 98, 105, 110>>, <<65, 118, 101, 114, 121>>, <<68, 114, 101, 119>>,
     <<81, 117, 105, 110, 110>>, <<72, 97, 114, 112, 101, 114>>, <<83, 107, 121>>, <<75, 97, 105>>,
     <<68, 101, 118>>, <<78, 111, 111, 114>>, <<77, 97, 121, 97>>, <<73, 98, 114, 97, 104, 105, 109>>,
     <<79, 109, 97, 114>>, <<65, 109, 105, 114, 97>>, <<76, 101, 118, 105>>, <<90, 111, 101>>,
     <<76, 105, 97, 109>>, <<65, 114, 105, 97>>, <<77, 97, 116, 101, 111>>, <<78, 105, 110, 97>>,
     <<89, 97, 114, 97>>, <<69, 108, 105>>, <<83, 111, 102, 105, 97>>, <<76, 117, 99, 97, 115>>,
     <<73, 115, 108, 97>>, <<69, 116, 104, 97, 110>>, <<67, 104, 108, 111, 101>>, <<78, 111, 97, 104>>,
     <<76, 117, 110, 97>>, <<65, 118, 97>>, <<77, 97, 115, 111, 110>>, <<77, 105, 108, 97>>,
     <<72, 117, 103, 111>>, <<73, 118, 121>>, <<65, 114, 106, 117, 110>>, <<70, 97, 116, 105, 109, 97>>,
     <<83, 97, 108, 105, 109>>, <<68, 105, 101, 103, 111>>, <<83, 97, 114, 97>>, <<82, 111, 115, 97>>,
     <<72, 97, 110, 97>>, <<75, 111, 102, 105>>, <<73, 110, 101, 115>>, <<82, 97, 102, 97, 101, 108>>,
     <<77, 97, 114, 116, 97>>, <<65, 110, 121, 97>>, <<86, 105, 107, 116, 111, 114>>, <<75, 101, 110>>,
     <<65, 105, 115, 104, 97>>, <<79, 108, 117>>, <<69, 118, 101, 108, 121, 110>>, <<78, 111, 114, 97>>,
     <<84, 104, 101, 111>>, <<79, 115, 99, 97, 114>>, <<76, 97, 114, 97>>, <<90, 97, 105, 110>>,
     <<89, 117, 107, 105>>, <<82, 105, 110, 97>>, <<83, 118, 101, 110>>, <<77, 97, 114, 105, 97, 109>>,
     <<66, 111, 114, 105, 115>>, <<65, 108, 105, 110, 97>>, <<72, 97, 115, 115, 97, 110>>, <<82, 97, 109, 105>>,
     <<74, 97, 100, 101>>, <<82, 117, 98, 101, 110>>, <<78, 97, 100, 105, 97>>, <<71, 97, 98, 101>>,
     <<84, 97, 114, 97>>, <<73, 114, 105, 115>>, <<75, 105, 97, 110>>, <<77, 105, 114, 97>>,
     <<83, 101, 108, 105, 110>>, <<65, 110, 105, 108>>, <<83, 111, 114, 97>>, <<77, 105, 116, 115, 117>>,
     <<72, 101, 99, 116, 111, 114>>, <<76, 105, 110, 97>>, <<75, 101, 105>>, <<82, 97, 121, 97>>,
     <<73, 109, 97, 110>>, <<90, 97, 114, 97>>, <<66, 101, 110, 111>>, <<67, 101, 108, 105, 97>>,
     <<68, 97, 114, 97>>, <<69, 110, 122, 111>>, <<70, 97, 104, 97, 100>>, <<71, 105, 110, 97>>,
     <<89, 111, 117, 115, 115, 101, 102>>, <<76, 101, 101, 108, 97>>, <<80, 97, 118, 97, 110>>, <<82, 105, 116, 117>> >>

\* '' Lee Kai Jean Noor Lynn Roy Anne Ray J A. X Sol Ny Rey ''
MIDDLE ==
  << <<>>, <<76, 101, 101>>, <<75, 97, 105>>, <<74, 101, 97, 110>>,
     <<78, 111, 111, 114>>, <<76, 121, 110, 110>>, <<82, 111, 121>>, <<65, 110, 110, 101>>,
     <<82, 97, 121>>, <<74>>, <<65, 46>>, <<88>>,
     <<83, 111, 108>>, <<78, 121>>, <<82, 101, 121>>, <<>> >>

\* the 75 last names, Lee .. Parker
LAST ==
  << <<76, 101, 101>>, <<80, 97, 116, 101, 108>>, <<83, 105, 110, 103, 104>>, <<71, 97, 114, 99, 105, 97>>,
     <<75, 105, 109>>, <<78, 103, 117, 121, 101, 110>>, <<74, 111, 104, 110, 115, 111, 110>>, <<66, 114, 111, 119, 110>>,
     <<87, 105, 108, 115, 111, 110>>, <<77, 97, 114, 116, 105, 110, 101, 122>>, <<83, 105, 108, 118, 97>>, <<67, 111, 115, 116, 97>>,
     <<73, 118, 97, 110, 111, 118>>, <<67, 104, 101, 110>>, <<75, 104, 97, 110>>, <<77, 101, 110, 100, 101, 115>>,
     <<71, 111, 109, 101, 122>>, <<82, 111, 115, 115, 105>>, <<77, 111, 114, 101, 97, 117>>, <<79, 107, 111, 121, 101>>,
     <<72, 101, 114, 110, 97, 110, 100, 101, 122>>, <<83, 97, 110, 116, 111, 115>>, <<76, 111, 112, 101, 122>>, <<75, 97, 117, 114>>,
     <<89, 97, 109, 97, 109, 111, 116, 111>>, <<75, 111, 119, 97, 108, 115, 107, 105>>, <<80, 111, 112, 111, 118>>, <<80, 101, 116, 114, 111, 118>>,
     <<75, 105, 108, 105, 99>>, <<77, 117, 108, 108, 101, 114>>, <<83, 99, 104, 109, 105, 100, 116>>, <<78, 111, 119, 97, 107>>,
     <<70, 101, 114, 114, 101, 105, 114, 97>>, <<65, 108, 105>>, <<72, 111, 115, 115, 101, 105, 110, 105>>, <<79, 115, 101, 105>>,
     <<66, 101, 108, 108, 111>>, <<65, 107, 97, 110, 100, 101>>, <<80, 97, 114, 107>>, <<84, 114, 97, 110>>,
     <<76, 105, 117>>, <<90, 104, 97, 110, 103>>, <<87, 97, 110, 103>>, <<72, 117, 115, 115, 97, 105, 110>>,
     <<82, 97, 109, 111, 115>>, <<80, 101, 114, 101, 105, 114, 97>>, <<68, 97, 115>>, <<77, 101, 104, 116, 97>>,
     <<65, 98, 100, 117, 108, 108, 97, 104>>, <<66, 97, 107, 97, 114>>, <<72, 101, 114, 114, 101, 114, 97>>, <<71, 111, 110, 122, 97, 108, 101, 122>>,
     <<77, 111, 114, 101, 116, 116, 105>>, <<82, 105, 99, 99, 105>>, <<66, 105, 97, 110, 99, 104, 105>>, <<89, 111, 117, 115, 115, 101, 102>>,
     <<83, 111, 117, 122, 97>>, <<80, 105, 110, 116, 111>>, <<77, 97, 114, 116, 105, 110, 115>>, <<75, 104, 97, 116, 114, 105>>,
     <<67, 104, 111, 119, 100, 104, 117, 114, 121>>, <<79, 107, 97, 102, 111, 114>>, <<73, 98, 114, 97, 104, 105, 109>>, <<82, 111, 109, 97, 110>>,
     <<68, 105, 97, 122>>, <<66, 108, 97, 110, 99, 111>>, <<75, 108, 101, 105, 110>>, <<83, 109, 105, 116, 104>>,
     <<65, 100, 97, 109, 115>>, <<78, 103>>, <<83, 97, 116, 111>>, <<73, 116, 111>>,
     <<77, 117, 114, 112, 104, 121>>, <<75, 101, 108, 108, 121>>, <<80, 97, 114, 107, 101, 114>> >>

\* EMOJI of synthetic-people.js: twelve emoji
NAME_EMOJI ==
  << <<55356, 57104>>, <<11088>>, <<55357, 56960>>, <<55357, 56462>>,
     <<55357, 56613>>, <<55357, 56520>>, <<55358, 56598>>, <<55358, 56985>>,
     <<9889>>, <<55357, 56594>>, <<10024>>, <<55358, 56708>> >>

\* '' '' '' Jr Sr II III _x _bot _VIP _OG
TITLES ==
  << <<>>, <<>>, <<>>, <<74, 114>>,
     <<83, 114>>, <<73, 73>>, <<73, 73, 73>>, <<95, 120>>,
     <<95, 98, 111, 116>>, <<95, 86, 73, 80>>, <<95, 79, 71>> >>


\* FIXED_ADMIN.displayName and FIXED_MOD.displayName
FIXED_ADMIN_displayName ==
  <<80, 114, 111, 102, 105, 116, 32, 72, 117, 110, 116, 101, 114, 32, 55356, 57104>>
FIXED_MOD_displayName == <<75, 105, 116, 116, 121, 32, 83, 116, 97, 114, 32, 11088>>

MinPeople == 3
MaxPeopleSize == 500000
MemberSeedStride == 97
MaxSuffix == 9999
ArchetypeCount == 13
LangCount == 20
ModeratorArchetype == 5

\* the keys of the profile overlay: Profit_Hunter, Kitty_Star, and the index i
\* of Member_<i+1>
AdminKey == -1
ModKey == -2

\* String.prototype.toLowerCase, on the letters of the name pools
LowerCase(str) ==
  [k \in 1..Len(str) |-> IF str[k] >= 65 /\ str[k] <= 90 THEN str[k] + 32 ELSE str[k]]

\* displayName.charAt(0).toUpperCase() + displayName.slice(1)
Capitalized(str) ==
  IF str = <<>> THEN str
  ELSE [str EXCEPT ![1] = IF @ >= 97 /\ @ <= 122 THEN @ - 32 ELSE @]

\* a character kept by replace(/[^a-zA-Z0-9\s_]/g, '')
IsWordOrSpace(c) ==
  \/ c >= 97 /\ c <= 122
  \/ c >= 65 /\ c <= 90
  \/ c >= 48 /\ c <= 57
  \/ c \in {32, 95}

\* String.prototype.trim
Trim(str) ==
  LET keep == {k \in 1..Len(str) : str[k] # 32}
  IN IF keep = {} THEN <<>>
     ELSE SubSeq(str, CHOOSE k \in keep : \A j \in keep : k <= j,
                      CHOOSE k \in keep : \A j \in keep : k >= j)

\* displayName.replace(/[^a-zA-Z0-9\s_]/g,'').trim() || 'User'
BaseName(displayName) ==
  LET base == Trim(SelectSeq(displayName, IsWordOrSpace))
  IN IF base = <<>> THEN <<85, 115, 101, 114>> ELSE base

\* the candidate of attempt i of ensureUnique, r the draw of rndForSuffix
Candidate(base, i, r) ==
  IF i < 10 /\ Below(r, 18, 100)
  THEN base \o <<32>> \o NAME_EMOJI[(i % Len(NAME_EMOJI)) + 1]
  ELSE IF i < 10 /\ Below(r, 36, 100)
  THEN base \o TITLES[(i % Len(TITLES)) + 1] \o Digits(i)
  ELSE base \o <<95>> \o Digits(i)

\* the loop of ensureUnique from attempt i on, x the state of rndForSuffix;
\* after attempt 9999 the fallback displayName + '_' + Date.now()
RECURSIVE FirstFree(_, _, _, _, _)
FirstFree(displayName, base, used, i, x) ==
  IF i > MaxSuffix THEN displayName \o <<95>> \o Digits(Epoch)
  ELSE IF Candidate(base, i, rnd(x)) \notin used THEN Candidate(base, i, rnd(x))
  ELSE FirstFree(displayName, base, used, i + 1, IF i < 10 THEN rnd(x) ELSE x)

\* ensureUnique that returns the name as it is
ensureUnique_Unchecked(displayName, used, x) == displayName

\* ensureUnique(displayName, used, rndForSuffix): the name returned, which the
\* caller's set `used` then holds
ensureUnique(displayName, used, x) ==
  IF displayName \notin used THEN displayName
  ELSE FirstFree(displayName, BaseName(displayName), used, 1, x)

\* ---- one member
NoProfile == [fatigue |-> -1, archetype |-> -1, lang |-> -1]
ProfileKeys == {AdminKey, ModKey} \cup (0..(MaxPeople - 1))
NoProfiles == [k \in ProfileKeys |-> NoProfile]

\* draws of gen.rnd one member can take: name 6, role 1, profile 3, avatar 2,
\* country, emotion and lastActive 3
MaxMemberDraws == 15

\* the display name before ensureUnique, from the draws d of gen.rnd
RawName(d) ==
  LET first == pickFrom(FIRST, d[1])
      middle == pickFrom(MIDDLE, d[2])
      last == pickFrom(LAST, d[3])
      plain == IF middle # <<>> THEN first \o <<32>> \o middle \o <<32>> \o last
               ELSE first \o <<32>> \o last
      nameFlavor == Floor(d[4], 100)
  IN IF nameFlavor < 6
     THEN (IF Below(d[5], 1, 2) THEN pickFrom(NAME_EMOJI, d[6]) \o <<32>> \o plain
           ELSE plain \o <<32>> \o pickFrom(NAME_EMOJI, d[6]))
     ELSE IF nameFlavor < 14
     THEN (IF Below(d[5], 1, 2) THEN LowerCase(plain) ELSE Capitalized(plain))
     ELSE IF nameFlavor < 24
     THEN plain \o pickFrom(TITLES, d[5]) \o Digits(Floor(d[6], 999))
     ELSE plain

\* the number of draws the name took
NameDraws(d) ==
  LET nameFlavor == Floor(d[4], 100)
  IN IF nameFlavor < 6 THEN 6 ELSE IF nameFlavor < 14 THEN 5
     ELSE IF nameFlavor < 24 THEN 6 ELSE 4

\* gen.rollRole for a member that is not in a fixed slot, r its draw
rollRole(r) ==
  IF Below(r, 2, 100) THEN "ADMIN" ELSE IF Below(r, 8, 100) THEN "MOD" ELSE "VERIFIED"

\* the draws the profile takes: fatigue, archetype and lang when none is saved
ProfileDraws(saved) == IF saved = NoProfile THEN 3 ELSE 0

\* loadProfile(shortName) || {} with its missing fields drawn after draw k
Profile(saved, i, d, k) ==
  IF saved # NoProfile THEN saved
  ELSE [fatigue |-> clamp(Floor(d[k + 1], 250) + (IF i % 50 = 0 THEN 100 ELSE 0), 0, 950),
        archetype |-> Floor(d[k + 2], ArchetypeCount),
        lang |-> Floor(d[k + 3], LangCount)]

Person(key, displayName, role, authority, profile) ==
  [name |-> key, displayName |-> displayName, role |-> role, language |-> profile.lang,
   personality |-> profile.archetype, fatigue |-> profile.fatigue, authority |-> authority]

\* authority: role === 'ADMIN' ? 3 : role === 'MOD' ? 2 : 1
Authority(role) == IF role = "ADMIN" THEN 3 ELSE IF role = "MOD" THEN 2 ELSE 1

\* the fixed admin or mod slot
FixedMember(s, key, displayName, role, authority, fatigue) ==
  LET profile == IF s.profiles[key] # NoProfile THEN s.profiles[key]
                 ELSE [fatigue |-> fatigue, archetype |-> ModeratorArchetype, lang |-> 0]
  IN [s EXCEPT !.profiles[key] = profile,
               !.arr = Append(@, Person(key, displayName, role, authority, profile))]

\* a generated member, once its profile is known: n draws were taken
WithProfile(s, i, d, n, displayName, role, profile) ==
  [x |-> d[n],
   used |-> s.used \cup {displayName},
   profiles |-> [s.profiles EXCEPT ![i] = profile],
   arr |-> Append(s.arr, Person(i, displayName, role, Authority(role), profile))]

\* a generated member, once its name is known: the name took k draws
WithName(s, i, d, k, displayName) ==
  WithProfile(s, i, d, k + 1 + ProfileDraws(s.profiles[i]) + 5, displayName,
              rollRole(d[k + 1]), Profile(s.profiles[i], i, d, k + 1))

\* a generated member at index i
GeneratedMember(s, i, meta) ==
  LET d == Draws(s.x, MaxMemberDraws)
  IN WithName(s, i, d, NameDraws(d),
              ensureUnique(RawName(d), s.used,
                           xorshift32(meta.seedBase + i * MemberSeedStride)))

\* a loop of generatePool without the fixed slots
AddMember_NoFixedSlot(s, i, meta) == GeneratedMember(s, i, meta)

\* one turn of the loop of generatePool
AddMember(s, i, meta) ==
  IF i = 0 /\ meta.includeAdmin
  THEN FixedMember(s, AdminKey, FIXED_ADMIN_displayName, "ADMIN", 3, 50)
  ELSE IF i = 1 /\ meta.includeMod
  THEN FixedMember(s, ModKey, FIXED_MOD_displayName, "MOD", 2, 80)
  ELSE GeneratedMember(s, i, meta)

\* the loop of generatePool over the persisted profiles
BuildPool(meta, profiles) ==
  LET add(s, i) == AddMember(s, i, meta)
  IN Loop(add,
          [x |-> xorshift32(meta.seedBase),
           used |-> (IF meta.includeAdmin THEN {FIXED_ADMIN_displayName} ELSE {})
                      \cup (IF meta.includeMod THEN {FIXED_MOD_displayName} ELSE {}),
           profiles |-> profiles,
           arr |-> <<>>],
          0, meta.size - 1)

\* ---- the calls
DefaultPeopleSize == 4872
DefaultPeopleSeed == 2026
DefaultMeta ==
  [size |-> DefaultPeopleSize, seedBase |-> DefaultPeopleSeed,
   includeAdmin |-> TRUE, includeMod |-> TRUE]

\* a seed under which two of the first members draw the same name; sizes
\* below the minimum and at the bound
PeopleSeeds == {24159}
\* includeAdmin and includeMod: both fixed slots, none, the moderator's alone
FixedSlots == { <<TRUE, TRUE>>, <<FALSE, FALSE>>, <<FALSE, TRUE>> }
PeopleOptions ==
  { [size |-> z, seedBase |-> b, includeAdmin |-> f[1], includeMod |-> f[2]] :
      z \in {2, MaxPeople}, b \in PeopleSeeds, f \in FixedSlots }

NoRun == [meta |-> DefaultMeta, people |-> <<>>, asked |-> 0]

\* SyntheticPeople.generatePool(opts)
spGeneratePool ==
  /\ sgRuns < MaxRuns
  /\ \E opts \in PeopleOptions :
       LET meta == [size |-> clamp(IF opts.size # 0 THEN opts.size ELSE sgMeta.size,
                                   MinPeople, MaxPeopleSize),
                    seedBase |-> IF opts.seedBase # 0 THEN opts.seedBase ELSE sgMeta.seedBase,
                    includeAdmin |-> opts.includeAdmin,
                    includeMod |-> opts.includeMod]
           built == BuildPool(meta, sgProfiles)
       IN /\ sgMeta' = meta
          /\ sgPeople' = built.arr
          /\ sgProfiles' = built.profiles
          /\ sgLast' = [meta |-> meta, people |-> built.arr, asked |-> opts.size]
  /\ sgEarlier' = sgLast
  /\ sgRuns' = sgRuns + 1

\* the page is loaded again: the script runs anew, localStorage is kept
spReload ==
  /\ sgPeople # <<>>
  /\ sgPeople' = <<>>
  /\ sgMeta' = DefaultMeta
  /\ UNCHANGED <<sgProfiles, sgLast, sgEarlier, sgRuns>>

\* the site data is cleared: no profile is persisted any more
spClearStorage ==
  /\ sgProfiles # NoProfiles
  /\ sgProfiles' = NoProfiles
  /\ UNCHANGED <<sgMeta, sgPeople, sgLast, sgEarlier, sgRuns>>

\* =========================================================================
\* PeopleStore: createPerson, init, generateBatch, populateGlobal
\* =========================================================================
MaxStoreCalls == 3   \* init and populateGlobal calls followed
MaxFill == 32        \* the largest fillTo tried

MinStoreSize == 1
MaxStoreSize == 5000
DefaultFillCount == 1000
SmallPopulation == 30
MaxToAdd == 5000

cryptoHandles ==
  <<"HODLer", "BitNinja", "SatoshiFan", "MoonChaser", "AlphaSeer", "GammaBot",
    "Candlestick", "DeltaTrader", "Pulse", "OnchainGeek", "DeFiDave", "ChartQueen">>
firstNames ==
  <<"Ava", "Liam", "Noah", "Olivia", "Emma", "Lucas", "Mia", "Ethan", "Amir", "Zara",
    "Kai", "Nora", "Jonah", "Layla", "Ivy", "Owen", "Maya", "Leo", "Hana", "Ibrahim">>
lastNames ==
  <<"Okoye", "Smith", "Johnson", "Chen", "Nguyen", "Khan", "Gonzalez", "Ivanov", "Patel",
    "Silva", "Kim", "Park", "Andersen", "Martin", "Brown", "Tadesse", "Bakare", "Mensah",
    "Ndlovu", "Almeida">>

\* makeRng(seed) for 0 < seed < 2^31, where seed >>> 0 is seed: the state
\* before the first draw
makeRng(seed) == Word(seed)

\* the most draws of rng one createPerson takes
MaxPersonDraws == 16

personRole(r) ==
  IF Below(r, 1, 100) THEN "ADMIN" ELSE IF Below(r, 6, 100) THEN "MOD" ELSE "VERIFIED"

\* after the role: country, language, archetype, emotBase, energy, curiosity,
\* confidence, emojiAffinity (two draws), lastActive, and two more draws for
\* the authority of a VERIFIED person
PersonRoled(d, k, name, role) ==
  [person |-> [name |-> name, role |-> role],
   x |-> d[k + 11 + (IF role = "VERIFIED" THEN 2 ELSE 0)]]

PersonNamed(d, k, name) == PersonRoled(d, k, name, personRole(d[k + 1]))

\* createPerson(rng, idx) without honorPrefix, rng in state x: the person and
\* the state of rng afterwards. A name is the sequence of its words.
PersonOf(d) ==
  IF Below(d[1], 14, 100)
  THEN PersonNamed(d, 2, <<pickFrom(cryptoHandles, d[2])>>)
  ELSE PersonNamed(d, 3, <<pickFrom(firstNames, d[2]), pickFrom(lastNames, d[3])>>)

createPerson(x) == PersonOf(Draws(x, MaxPersonDraws))

\* the loop of init
InitialPeople(targetCount, seed) ==
  LET add(s, i) == [x |-> createPerson(s.x).x, arr |-> Append(s.arr, createPerson(s.x).person)]
  IN Loop(add, [x |-> makeRng(seed), arr |-> <<>>],
          1, Max(MinStoreSize, Min(MaxStoreSize, targetCount))).arr

\* generateBatch(1, {offset})[0]
generateBatch(seed, offset) == createPerson(makeRng(seed + offset)).person

NamesOf(arr) == {arr[i].name : i \in 1..Len(arr)}

\* populateGlobal, the branch that replaces window.sampleMembers
Padded(ppl, seed, fillTo) ==
  ppl \o [j \in 1..Max(0, fillTo - Len(ppl)) |-> generateBatch(seed, Len(ppl) + j - 1)]

\* populateGlobal, the branch that extends window.sampleMembers
RECURSIVE Extend(_, _, _, _, _, _)
Extend(existing, names, toAdd, offset, seed, fillTo) ==
  IF ~(Len(existing) + Len(toAdd) < fillTo) THEN toAdd
  ELSE LET candidate == generateBatch(seed, offset)
       IN IF candidate.name \notin names
          THEN (IF Len(toAdd) + 1 > MaxToAdd THEN Append(toAdd, candidate)
                ELSE Extend(existing, names \cup {candidate.name}, Append(toAdd, candidate),
                            offset + 1, seed, fillTo))
          ELSE Extend(existing, names, toAdd, offset + 1, seed, fillTo)

\* seeds: one given by the caller, and values of Date.now() & 0x7fffffff
StoreSeeds == {2026, 20260055}

\* PeopleStore.init({targetCount, seed})
init ==
  /\ storeCalls < MaxStoreCalls
  /\ \E targetCount \in {2, 3}, seed \in StoreSeeds :
       /\ storeSeed' = seed
       /\ storePeople' = InitialPeople(targetCount, seed)
  /\ storeCalls' = storeCalls + 1
  /\ UNCHANGED sampleMembers

\* PeopleStore.populateGlobal({fillTo, replace}); clockSeed is the seed init
\* takes from the clock when the store is empty
populateGlobal ==
  /\ storeCalls < MaxStoreCalls
  /\ \E fillTo \in {4, MaxFill - 2, MaxFill}, replace \in BOOLEAN, clockSeed \in StoreSeeds :
       LET seed == IF storePeople = <<>> THEN clockSeed ELSE storeSeed
           ppl == IF storePeople = <<>>
                  THEN InitialPeople(Min(DefaultFillCount, fillTo), clockSeed)
                  ELSE storePeople
       IN /\ storeSeed' = seed
          /\ storePeople' = ppl
          /\ sampleMembers' =
               IF Len(sampleMembers) < SmallPopulation \/ replace
               THEN Padded(ppl, seed, fillTo)
               ELSE sampleMembers \o
                      Extend(sampleMembers, NamesOf(sampleMembers), <<>>,
                             Len(sampleMembers), seed, fillTo)
  /\ storeCalls' = storeCalls + 1

\* =========================================================================
\* SimulationEngine with its seeded generator (src/stimulation-engine.js):
\* _maybeSpawn, _pickActor, _generateMessageFor and DefaultMessageBank.generate
\* as functions of the draws of _rng, for two engines given the same seed and
\* the same people.  Prices are whole dollars and follow the upper bits of
\* their draw; a weight keeps three decimals of its random factor and the
\* weighted pick the upper eight bits of its draw.
\* =========================================================================
MaxTicks == 8        \* ticks and reply timers followed

TemplateCount == 10
PairCount == 7
IndicatorCount == 6
TimeframeCount == 6
FillerCount == 10
MaxTickDraws == 32   \* draws of _rng one tick can take, with two actors
Blank == -1

\* the placeholders of each template of DefaultMessageBank
Placeholders ==
  << {"pair", "entry", "sl", "tp"}, {"pair", "indicator"}, {"pair", "timeframe"},
     {"entry"}, {"pair"}, {"indicator"}, {"pair"}, {"pair"}, {"pair", "pnl"},
     {"priceLevel"} >>

\* String.replace of a placeholder: the value shows only where the template has it
Field(t, name, value) == IF name \in Placeholders[t + 1] THEN value ELSE Blank

\* values of (Math.random() * (40000 - 1000) + 1000)
Entries == {1000, 20500}

\* Math.round(entry / (10 + Math.floor(rng() * 100))) * (1 + rng() * 0.01), in cents
PriceLevel(entry, a, b) ==
  LET div == 10 + Floor(a, 100)
      q == (2 * entry + div) \div (2 * div)
  IN q * 100 + Floor(b, q)

\* DefaultMessageBank.generate(rng, person), its draws being d[o + 1], ...
BankText(d, o, entry) ==
  LET t == Floor(d[o + 1], TemplateCount)
  IN [t |-> t,
      pair |-> Field(t, "pair", Floor(d[o + 2], PairCount)),
      indicator |-> Field(t, "indicator", Floor(d[o + 3], IndicatorCount)),
      timeframe |-> Field(t, "timeframe", Floor(d[o + 4], TimeframeCount)),
      entry |-> Field(t, "entry", entry),
      sl |-> Field(t, "sl", entry * (9940 - 25 * Floor(d[o + 5], 8))),
      tp |-> Field(t, "tp", entry * (102 + 25 * Floor(d[o + 6], 2))),
      priceLevel |-> Field(t, "priceLevel", PriceLevel(entry, d[o + 7], d[o + 8])),
      pnl |-> Field(t, "pnl", 20 + Floor(d[o + 9], 500)),
      filler |-> IF Below(d[o + 10], 35, 100) THEN Floor(d[o + 11], FillerCount) ELSE Blank]

BankDraws(d, o) == IF Below(d[o + 10], 35, 100) THEN 11 ELSE 10

\* the micro-variation of _generateMessageFor, drawn after draw n
Suffix(d, n) ==
  IF Below(d[n + 1], 28, 100) THEN [kind |-> "emoji", value |-> Floor(d[n + 2], 5)]
  ELSE IF Below(d[n + 1], 34, 100) THEN [kind |-> "tag", value |-> 100 + Floor(d[n + 2], 890)]
  ELSE IF Below(d[n + 1], 38, 100) THEN [kind |-> "note", value |-> Floor(d[n + 2], 3)]
  ELSE [kind |-> "none", value |-> 0]

SuffixDraws(d, n) == IF Below(d[n + 1], 38, 100) THEN 2 ELSE 1

\* draws up to the candidate: the bank's, the suffix's, and the time stamp's
DraftDraws(d, o) == BankDraws(d, o) + SuffixDraws(d, o + BankDraws(d, o)) + 1

\* the candidate text of _generateMessageFor
Drafted(d, o, entry) ==
  [bank |-> BankText(d, o, entry),
   suffix |-> Suffix(d, o + BankDraws(d, o)),
   stamp |-> Below(d[o + DraftDraws(d, o)], 6, 100),
   extra |-> Blank]

\* the de-duplication loop of _generateMessageFor: the final text and the
\* number of the last draw taken
RECURSIVE Deduped(_, _, _, _, _, _)
Deduped(d, k, seen, candidate, final, attempts) ==
  IF final \in seen /\ attempts < MaxRegenerations
  THEN Deduped(d, k + 1, seen, candidate,
               [candidate EXCEPT !.extra = 100 + Floor(d[k + 1], 9000)], attempts + 1)
  ELSE [text |-> final, k |-> k]

Generated(d, o, seen, entry) ==
  Deduped(d, o + DraftDraws(d, o), seen, Drafted(d, o, entry), Drafted(d, o, entry), 0)

\* the people both engines are given; none has lastActive
RunPeople ==
  << [name |-> "Ava", role |-> "ADMIN"], [name |-> "Cy", role |-> "VERIFIED"],
     [name |-> "You", role |-> "VERIFIED"] >>

Listed == SelectSeq(RunPeople, LAMBDA p : p.name # "You")

\* _pickActor: the weight of a person, in units of 1/100000
RoleWeight(role) ==
  IF role = "ADMIN" THEN 160 ELSE IF role = "MOD" THEN 125
  ELSE IF role = "VERIFIED" THEN 105 ELSE 100
IdleWeight == 7
Weight(p, x) == RoleWeight(p.role) * IdleWeight * (700 + Floor(x, 600))

RECURSIVE WeightUpTo(_, _, _)
WeightUpTo(d, o, i) ==
  IF i = 0 THEN 0 ELSE WeightUpTo(d, o, i - 1) + Weight(Listed[i], d[o + i])

\* _pickActor with the draws d[o + 1], ...: the first person at which
\* r = rng() * total has been used up
pickActor(d, o) ==
  LET n == Len(Listed)
      r == Floor(d[o + n + 1], 256)
      hit(i) == r * WeightUpTo(d, o, n) <= 256 * WeightUpTo(d, o, i)
  IN Listed[CHOOSE i \in 1..n : hit(i) /\ \A j \in 1..(i - 1) : ~hit(j)]

\* Date.now(), the same in both runs
RunNow == 100

\* a message is started: x is the state of _rng afterwards
Started(run, person, text, x, last, replies) ==
  [x |-> x, seen |-> run.seen \cup {text}, last |-> last,
   timers |-> run.timers + replies,
   actors |-> Append(run.actors, person.name), texts |-> Append(run.texts, text)]

\* _adminSpike: after the headline g, one draw for replyCount and one per timer
Spiked(run, d, person, g) ==
  Started(run, person, g.text, d[g.k + 1 + 2 + Floor(d[g.k + 1], 4)], RunNow,
          2 + Floor(d[g.k + 1], 4))

Plain(run, d, person, g) == Started(run, person, g.text, d[g.k], run.last, 0)

\* _maybeSpawn once the actor is picked with k draws taken
Picked(run, entry, d, person, k) ==
  IF person.role = "ADMIN"
  THEN (IF Below(d[k + 1], 25, 100) /\ RunNow - run.last > SpikeCooldown
        THEN Spiked(run, d, person, Generated(d, k + 1, run.seen, entry))
        ELSE Plain(run, d, person, Generated(d, k + 1, run.seen, entry)))
  ELSE Plain(run, d, person, Generated(d, k, run.seen, entry))

\* _maybeSpawn with the draws d; chance is 0.12 + 0.28 * 0.6
Ticked(run, entry, d) ==
  IF ~Below(d[1], 288, 1000) THEN [run EXCEPT !.x = d[1]]
  ELSE Picked(run, entry, d, pickActor(d, 1), Len(Listed) + 2)

\* a quick-reply timer of _adminSpike with the draws d
Replied(run, entry, d) ==
  IF run.timers = 0 THEN run
  ELSE Plain([run EXCEPT !.timers = @ - 1], d, pickActor(d, 0),
             Generated(d, Len(Listed) + 1, run.seen, entry))

RunSeeds == {7, 2026, 4000, 123456789}

\* SimulationEngine.init({seed, people})
NewRun(seed) ==
  [x |-> makeRng(seed), seen |-> {}, last |-> 0, timers |-> 0,
   actors |-> <<>>, texts |-> <<>>]

\* an interval tick in both runs; entryA and entryB are what Math.random()
\* gives each run, should its bank use it
bothTick ==
  /\ runSteps < MaxTicks
  /\ \E entryA, entryB \in Entries :
       /\ runA' = Ticked(runA, entryA, Draws(runA.x, MaxTickDraws))
       /\ runB' = Ticked(runB, entryB, Draws(runB.x, MaxTickDraws))
  /\ runSteps' = runSteps + 1

\* the next quick-reply timer in both runs
bothReply ==
  /\ runSteps < MaxTicks
  /\ runA.timers > 0 \/ runB.timers > 0
  /\ \E entryA, entryB \in Entries :
       /\ runA' = Replied(runA, entryA, Draws(runA.x, MaxTickDraws))
       /\ runB' = Replied(runB, entryB, Draws(runB.x, MaxTickDraws))
  /\ runSteps' = runSteps + 1

\* =========================================================================
\* The specifications and their properties
\* =========================================================================
\* ------------------------------------------- groups of variables at rest
\* no typing session under observation
teIdle ==
  /\ chars = <<>> /\ isRTL = FALSE /\ allowGhost = FALSE /\ interruptable = FALSE
  /\ hasActor = FALSE /\ likelyCopyPaste = FALSE
  /\ idx = 0 /\ typed = <<>> /\ running = FALSE /\ paused = FALSE
  /\ abandoned = FALSE /\ sent = FALSE /\ interrupted = FALSE
  /\ timers = EmptyBag /\ fatigueData = NoEntry /\ now = 0
  /\ out = <<>> /\ terminals = 0 /\ lateEvents = FALSE
  /\ cancelled = FALSE /\ held = FALSE /\ calls = 0
  /\ sends = 0 /\ normalTyped = FALSE /\ lastRemaining = -1

\* no SimulationEngine under observation
seIdle ==
  /\ simRunning = FALSE /\ intervalId = FALSE /\ intervalTimers = 0 /\ docHidden = FALSE
  /\ hasTypingEngine = FALSE /\ simulateThrows = FALSE /\ bankThrows = FALSE /\ people = <<>> /\ seenLimit = 0
  /\ seenSet = {} /\ seenQueue = <<>> /\ typingControllers = {}
  /\ sessions = <<>> /\ cleanupTimers = {} /\ seedTimers = 0 /\ spikeTimers = 0
  /\ lastAdminSpike = 0 /\ simNow = 0 /\ delivered = <<>> /\ stopMark = -1
  /\ tickProcessed = FALSE /\ sessionCap = 0

\* no MessagePool under observation
mpIdle ==
  /\ poolMeta = [size |-> DefaultSize, seedBase |-> DefaultSeedBase, replyFraction |-> 6]
  /\ messages = <<>> /\ spPeople = <<>> /\ poolNow = 0
  /\ fetched = None /\ probe = None /\ got = None

\* no fatigue store under observation
fsIdle ==
  /\ fsStorage = Absent /\ fsData = JsNull /\ psStorage = Absent
  /\ psFatigue = Obj(NoEntries) /\ fsNow = 0 /\ fsResult = NoResult /\ fsCalls = 0

\* no SyntheticPeople under observation
sgIdle ==
  /\ sgMeta = DefaultMeta /\ sgPeople = <<>> /\ sgProfiles = NoProfiles
  /\ sgLast = NoRun /\ sgEarlier = NoRun /\ sgRuns = 0

\* no PeopleStore population under observation
stIdle ==
  /\ storePeople = <<>> /\ storeSeed = 0 /\ sampleMembers = <<>> /\ storeCalls = 0

\* no pair of engine runs under observation
rnIdle == runA = NewRun(1) /\ runB = NewRun(1) /\ runSteps = 0

\* no recency window under observation
lrIdle == lru = makeLRU(LruCap) /\ inserted = <<>> /\ evicted = <<>>

\* no generator built
NoGenerator == [by |-> "none", seed |-> 0, x |-> Word(0), n |-> 0]

\* no pair of generators under observation
gnIdle == genA = NoGenerator /\ genB = NoGenerator

\* no usage recorded by MessageBank, no call observed
NoUsage == [counts |-> <<>>, recent |-> <<>>]
mbIdle == bankUsage = NoUsage /\ bankCall = [calls |-> 0]

\* no firing of a stream's interval callback yet
NoTick == [stream |-> 0, emitted |-> FALSE, halted |-> FALSE]

\* no stream of a generator view started
gvIdle == viewStopped = FALSE /\ streams = <<>> /\ ticked = NoTick

\* no populateGlobal call in progress
NoFill == [on |-> FALSE, fillTo |-> 0, names |-> {}, toAdd |-> <<>>, offset |-> 0, passes |-> 0]
pgIdle == filling = NoFill

\* no sampleOnline call made
NoSample == [calls |-> 0, n |-> 0, selection |-> <<>>, before |-> <<>>]
onIdle == crowd = <<>> /\ crowdNow = 0 /\ sampled = NoSample

\* what the steps of one component leave alone
otherThanTyping == <<seVars, mpVars, fsVars, sgVars, stVars, rnVars, lrVars, gnVars, mbVars, gvVars, pgVars, onVars>>
otherThanEngine == <<teVars, mpVars, fsVars, sgVars, stVars, rnVars, lrVars, gnVars, mbVars, gvVars, pgVars, onVars>>
otherThanPool == <<teVars, seVars, fsVars, sgVars, stVars, rnVars, lrVars, gnVars, mbVars, gvVars, pgVars, onVars>>
otherThanFatigue == <<teVars, seVars, mpVars, sgVars, stVars, rnVars, lrVars, gnVars, mbVars, gvVars, pgVars, onVars>>
otherThanPeople == <<teVars, seVars, mpVars, fsVars, stVars, rnVars, lrVars, gnVars, mbVars, gvVars, pgVars, onVars>>
otherThanStore == <<teVars, seVars, mpVars, fsVars, sgVars, rnVars, lrVars, gnVars, mbVars, gvVars, pgVars, onVars>>
otherThanRuns == <<teVars, seVars, mpVars, fsVars, sgVars, stVars, lrVars, gnVars, mbVars, gvVars, pgVars, onVars>>
otherThanLru == <<teVars, seVars, mpVars, fsVars, sgVars, stVars, rnVars, gnVars, mbVars, gvVars, pgVars, onVars>>
otherThanSeeds == <<teVars, seVars, mpVars, fsVars, sgVars, stVars, rnVars, lrVars, mbVars, gvVars, pgVars, onVars>>
otherThanBank == <<teVars, seVars, mpVars, fsVars, sgVars, stVars, rnVars, lrVars, gnVars, gvVars, pgVars, onVars>>
otherThanStreams == <<teVars, seVars, mpVars, fsVars, sgVars, stVars, rnVars, lrVars, gnVars, mbVars, pgVars, onVars>>
\* the extension loop reads and writes the store and window.sampleMembers
otherThanFilling == <<teVars, seVars, mpVars, fsVars, sgVars, rnVars, lrVars, gnVars, mbVars, gvVars, onVars>>
otherThanOnline == <<teVars, seVars, mpVars, fsVars, sgVars, stVars, rnVars, lrVars, gnVars, mbVars, gvVars, pgVars>>

\* ------------------------------------------------------------- the session
\* the state when simulate() returns its controller
Init ==
  /\ \E in \in (Texts \X {SlowMsPerChar}) \cup ({LongText} \X {FastMsPerChar}) :
       /\ chars = in[1]
       /\ likelyCopyPaste = LikelyCopyPaste(Len(Flatten(in[1])), in[2])
       /\ timers = SetToBag({IF LikelyCopyPaste(Len(Flatten(in[1])), in[2])
                             THEN Timer("paste") ELSE Timer("tick")})
       /\ running = ~LikelyCopyPaste(Len(Flatten(in[1])), in[2])
       /\ out = << [name |-> "typing:start", typed |-> <<>>, remaining |-> Len(in[1]),
                    tlen |-> 0,
                    text |-> IF LikelyCopyPaste(Len(Flatten(in[1])), in[2]) THEN Flatten(in[1]) ELSE <<>>,
                    meta |-> IF LikelyCopyPaste(Len(Flatten(in[1])), in[2]) THEN "copy-paste" ELSE ""] >>
  /\ isRTL = isRTLText(chars)
  /\ allowGhost \in BOOLEAN
  /\ interruptable \in BOOLEAN
  /\ \E a \in {<<FALSE, NoEntry>>, <<TRUE, NoEntry>>, <<TRUE, [v |-> 970, t |-> 0]>>} :
       /\ hasActor = a[1]
       /\ fatigueData = a[2]
  /\ idx = 0
  /\ typed = <<>>
  /\ paused = FALSE
  /\ abandoned = FALSE
  /\ sent = FALSE
  /\ interrupted = FALSE
  /\ now = 0
  /\ terminals = 0
  /\ lateEvents = FALSE
  /\ cancelled = FALSE
  /\ held = FALSE
  /\ calls = 0
  /\ sends = 0
  /\ normalTyped = FALSE
  /\ lastRemaining = -1
  /\ seIdle /\ mpIdle /\ fsIdle /\ sgIdle /\ stIdle /\ rnIdle /\ lrIdle /\ gnIdle /\ mbIdle /\ gvIdle /\ pgIdle /\ onIdle

Next ==
  \/ tickTimer /\ UNCHANGED otherThanTyping
  \/ stepOnce /\ UNCHANGED otherThanTyping
  \/ charTimer /\ UNCHANGED otherThanTyping
  \/ punctTimer /\ UNCHANGED otherThanTyping
  \/ retypeTimer /\ UNCHANGED otherThanTyping
  \/ ghostTimer /\ UNCHANGED otherThanTyping
  \/ finalTimer /\ UNCHANGED otherThanTyping
  \/ graceTimer /\ UNCHANGED otherThanTyping
  \/ pasteTimer /\ UNCHANGED otherThanTyping
  \/ cancel /\ UNCHANGED otherThanTyping
  \/ interrupt /\ UNCHANGED otherThanTyping
  \/ forceSend /\ UNCHANGED otherThanTyping
  \/ pause /\ UNCHANGED otherThanTyping

Spec == Init /\ [][Next]_vars

\* ---------------------------------------------- properties of one session
\* the first n characters of the text, as code units
Prefix(n) == Flatten(SubSeq(chars, 1, n))

RetypePending == \E t \in BagToSet(timers) : t.kind = "retype"

EmitsNow(names) == \E i \in 1..Len(out) : out[i].name \in names

\* C1: a session emits typing:start first, exactly one terminal event
\* (typing:send, typing:abandoned or typing:stop), and no event after that
\* terminal event, whatever the controller calls and timer firings are.
\* Safety part: never a second terminal event, never an event after one.
C1_OneTerminalThenSilence ==
  /\ terminals <= 1
  /\ ~lateEvents
  /\ (EmitsNow({"typing:start"}) => (terminals = 0 /\ calls = 0))

\* C2: once cancel() was called on a character-level session and no other
\* controller method is called afterwards, no step emits typing:progress,
\* typing:send or typing:abandoned, and the actor's fatigue entry stays as it is.
C2_CancelSilencesTimers ==
  [][ (cancelled /\ cancelled' /\ ~likelyCopyPaste) =>
        /\ fatigueData' = fatigueData
        /\ \A i \in 1..Len(out') :
              out'[i].name \notin {"typing:progress", "typing:send", "typing:abandoned"}
    ]_vars

\* a cancelled session that had typed its whole text and was waiting to send:
\* every timer left pending by cancel() has fired, silently
C2_Witness ==
  /\ cancelled /\ ~likelyCopyPaste
  /\ Len(chars) > 1 /\ idx = Len(chars)
  /\ ~sent /\ ~abandoned /\ ~running
  /\ timers = EmptyBag
  /\ out = <<>>
  /\ terminals = 1

\* C10: whenever no backspace correction is in progress the typed buffer is the
\* first idx characters of the text; at a natural completion the buffer is the
\* whole text and typing:send carries exactly the input text.
C10_TypedIsPrefixOfText ==
  /\ (running /\ ~RetypePending) => typed = Prefix(idx)
  /\ \A i \in 1..Len(out) :
        out[i].name = "typing:send" =>
          /\ out[i].text = Flatten(chars)
          /\ (out[i].meta = "" => out[i].typed = Flatten(chars))

\* C11: a session emits at most one typing:send event, whatever forceSend()
\* calls and timer completions occur, on the character-level path and on the
\* copy-paste path alike.
C11_AtMostOneSend == sends <= 1

\* C12: for an actor with an id or a name, a step that emits typing:send
\* raises the stored fatigue by the per-session increment (capped at 1), and
\* every other step, the ones that end the session abandoned or cancelled
\* among them, leaves the fatigue store as it is.
C12_SendRaisesFatigueOnce ==
  [][ hasActor =>
        IF \E i \in 1..Len(out') : out'[i].name = "typing:send"
        THEN fatigueData' = FatigueIncrease(fatigueData, now, FatigueIncreasePerSession)
        ELSE fatigueData' = fatigueData
    ]_vars

\* the events of the step just taken that carry one of the names
Emitted(names) == \E i \in 1..Len(out') : out'[i].name \in names

\* C16: interrupt() on a running session created with interruptable not false
\* emits typing:pause at once; while the grace timer is pending no timer
\* completion emits typing:progress or typing:send; and the grace timer of a
\* session still running ends it with typing:abandoned.
C16_InterruptPausesThenAbandons ==
  [][ /\ (~interrupted /\ interrupted' /\ running) =>
            (\E i \in 1..Len(out') : out'[i].name = "typing:pause" /\ out'[i].meta = "interrupted")
      /\ (interrupted /\ running /\ Pending(Timer("grace")) /\ calls' = calls) =>
            ~Emitted({"typing:progress", "typing:send"})
      /\ (interrupted /\ running /\ Pending(Timer("grace")) /\ ~Pending(Timer("grace"))') =>
            Emitted({"typing:abandoned"})
    ]_vars

\* C17: cancel() on a copy-paste session emits typing:stop, and once it was
\* called the synthetic typing:send is not emitted and the actor's fatigue
\* entry stays as it is.
C17_CancelStopsCopyPaste ==
  [][ likelyCopyPaste =>
        /\ (calls' # calls /\ cancelled') => Emitted({"typing:stop"})
        /\ (cancelled /\ cancelled') =>
              (~Emitted({"typing:send"}) /\ fatigueData' = fatigueData)
    ]_vars

\* C18: once the first normal character of a session has been typed, no step
\* emits a progress event flagged ghost and no ghost pause is started.
C18_GhostOnlyAtStart ==
  [][ normalTyped =>
        /\ \A i \in 1..Len(out') :
              ~(out'[i].name = "typing:progress" /\ out'[i].meta = "ghost")
        /\ Pending(Timer("ghost"))' => Pending(Timer("ghost"))
    ]_vars

\* C19: in every typing:progress event 0 <= remaining <= number of characters
\* and percent = typed.length / max(1, number of characters) is within [0, 1];
\* remaining never increases from one progress event to the next; the cursor
\* idx never exceeds the number of characters.
C19_ProgressWithinBounds ==
  /\ [](/\ idx <= Len(chars)
        /\ \A i \in 1..Len(out) :
              out[i].name = "typing:progress" =>
                /\ 0 <= out[i].remaining /\ out[i].remaining <= Len(chars)
                /\ out[i].tlen <= Max(1, Len(chars)))
  /\ [][ \A i \in 1..Len(out') :
            (out'[i].name = "typing:progress" /\ lastRemaining # -1) =>
               out'[i].remaining <= lastRemaining
       ]_vars

\* the state after SimulationEngine.init(opts)
InitOrch ==
  /\ teIdle /\ mpIdle /\ fsIdle /\ sgIdle /\ stIdle /\ rnIdle /\ lrIdle /\ gnIdle /\ mbIdle /\ gvIdle /\ pgIdle /\ onIdle
  /\ simRunning = FALSE /\ intervalId = FALSE /\ intervalTimers = 0 /\ docHidden = FALSE
  /\ hasTypingEngine \in BOOLEAN
  /\ simulateThrows \in (IF hasTypingEngine THEN BOOLEAN ELSE {FALSE})
  /\ bankThrows \in BOOLEAN
  /\ people \in {<<>>, Members}
  /\ seenLimit \in {MaxSeenLimit, DefaultSeenLimit}
  /\ seenSet = {} /\ seenQueue = <<>> /\ typingControllers = {}
  /\ sessions = <<>> /\ cleanupTimers = {} /\ seedTimers = 0 /\ spikeTimers = 0
  /\ lastAdminSpike = 0 /\ simNow = Epoch /\ delivered = <<>> /\ stopMark = -1
  /\ tickProcessed = FALSE /\ sessionCap = MaxSessions

NextOrch ==
  \/ start /\ UNCHANGED otherThanEngine
  \/ stop /\ UNCHANGED otherThanEngine
  \/ intervalTick /\ UNCHANGED otherThanEngine
  \/ seedTimer /\ UNCHANGED otherThanEngine
  \/ spikeReply /\ UNCHANGED otherThanEngine
  \/ cleanupTimer /\ UNCHANGED otherThanEngine
  \/ sessionSend /\ UNCHANGED otherThanEngine
  \/ sessionAbandon /\ UNCHANGED otherThanEngine
  \/ sessionPasteSend /\ UNCHANGED otherThanEngine
  \/ triggerManual /\ UNCHANGED otherThanEngine
  \/ visibilityChange /\ UNCHANGED otherThanEngine
  \/ simClock /\ UNCHANGED otherThanEngine

SpecOrch == InitOrch /\ [][NextOrch]_vars

\* C3: after an effective stop(), with no later start() or triggerManual(), no
\* session started before the stop sends: none of them turns to "sent", whatever
\* its age and its typing path.
C3_StopCancelsEverySession ==
  [][ (stopMark >= 0 /\ stopMark' = stopMark) =>
        \A sid \in 1..stopMark :
           sessions'[sid].st = "sent" => sessions[sid].st = "sent"
    ]_vars

\* the sessions a caller started
Via(via) == { sid \in 1..Len(sessions) : sessions[sid].via = via }

\* C22: in an admin spike burst the headline of the administrator is delivered
\* before any reply of the burst: while one burst has happened, a reply
\* session has sent only if the headline session has sent.
C22_HeadlineBeforeReplies ==
  Cardinality(Via("headline")) = 1 =>
    \A h \in Via("headline") : \A r \in Via("reply") :
       sessions[r].st = "sent" => sessions[h].st = "sent"

\* the sessions the orchestrator started itself that are still typing
InFlight ==
  { sid \in Via("tick") \cup Via("headline") \cup Via("reply") : sessions[sid].st = "typing" }

\* C23: the orchestrator never starts a typing session for an actor who still
\* has one in flight: no two sessions that ticks and spike replies started and
\* that are still typing belong to the same actor.
C23_OneSessionPerActor ==
  \A a, b \in InFlight : sessions[a].person.name = sessions[b].person.name => a = b

\* -------------------------------------------------- the loop of the engine
\* the engine's loop alone: the sessions it starts are left typing
NextLoop ==
  \/ start /\ UNCHANGED otherThanEngine
  \/ stop /\ UNCHANGED otherThanEngine
  \/ intervalTick /\ UNCHANGED otherThanEngine
  \/ seedTimer /\ UNCHANGED otherThanEngine
  \/ visibilityChange /\ UNCHANGED otherThanEngine
  \/ simClock /\ UNCHANGED otherThanEngine

\* the state after SimulationEngine.init(opts), as InitOrch
InitLoop ==
  /\ teIdle /\ mpIdle /\ fsIdle /\ sgIdle /\ stIdle /\ rnIdle /\ lrIdle /\ gnIdle /\ mbIdle /\ gvIdle /\ pgIdle /\ onIdle
  /\ simRunning = FALSE /\ intervalId = FALSE /\ intervalTimers = 0 /\ docHidden = FALSE
  /\ hasTypingEngine \in BOOLEAN
  /\ simulateThrows \in (IF hasTypingEngine THEN BOOLEAN ELSE {FALSE})
  /\ bankThrows \in BOOLEAN
  /\ people \in {<<>>, Members}
  /\ seenLimit \in {MaxSeenLimit, DefaultSeenLimit}
  /\ seenSet = {} /\ seenQueue = <<>> /\ typingControllers = {}
  /\ sessions = <<>> /\ cleanupTimers = {} /\ seedTimers = 0 /\ spikeTimers = 0
  /\ lastAdminSpike = 0 /\ simNow = Epoch /\ delivered = <<>> /\ stopMark = -1
  /\ tickProcessed = FALSE /\ sessionCap = MaxLoopSessions

SpecLoop == InitLoop /\ [][NextLoop]_vars

\* C21: no interval tick stops the loop. A firing of the interval callback,
\* whether it finds no people, spawns, or has a call inside it throw, leaves
\* _running and the interval timer as they were; and while the engine runs the
\* timer is armed, so that the next tick runs too.
C21_TickNeverStopsLoop ==
  /\ [](simRunning => intervalTimers > 0)
  /\ [][ (intervalTick /\ UNCHANGED otherThanEngine) =>
           (simRunning' = simRunning /\ intervalTimers' = intervalTimers) ]_vars

\* a tick has run on an engine without people, and the loop is still on
C21_Witness ==
  people = <<>> /\ tickProcessed /\ ~docHidden /\ simRunning /\ intervalTimers > 0

\* the interval timer set by setInterval keeps firing for as long as it is armed
SpecOrchFair == SpecOrch /\ WF_vars(intervalTick /\ UNCHANGED otherThanEngine)

\* C20: while the page is hidden and the engine is running the tick loop keeps
\* acting: from any moment of such a period on, the interval callback calls
\* _maybeSpawn again, unless the page is shown or the engine stopped first.
C20_HiddenTicksStillProcessed ==
  (docHidden /\ simRunning) ~> (tickProcessed \/ ~docHidden \/ ~simRunning)

\* ------------------------------------------------------------ MessagePool
InitPool ==
  /\ teIdle /\ seIdle /\ fsIdle /\ sgIdle /\ stIdle /\ rnIdle /\ lrIdle /\ gnIdle /\ mbIdle /\ gvIdle /\ pgIdle /\ onIdle
  /\ \E r \in ReplyFractions :
       poolMeta = [size |-> DefaultSize, seedBase |-> DefaultSeedBase, replyFraction |-> r]
  /\ spPeople \in PeopleLists
  /\ messages = <<>> /\ poolNow = 0 /\ fetched = None /\ probe = None /\ got = None

NextPool ==
  \/ generatePool /\ UNCHANGED otherThanPool
  \/ getRange /\ UNCHANGED otherThanPool
  \/ viewGetRange /\ UNCHANGED otherThanPool
  \/ viewGetPage /\ UNCHANGED otherThanPool
  \/ getMessageByIndex /\ UNCHANGED otherThanPool
  \/ viewGetItem /\ UNCHANGED otherThanPool
  \/ viewGetMessageByIndex /\ UNCHANGED otherThanPool
  \/ poolClock /\ UNCHANGED otherThanPool

SpecPool == InitPool /\ [][NextPool]_vars

\* ----------------------------------------------- properties of MessagePool
\* C4: two calls of _generateMessageForIndex with the same index, the same
\* seedBase and the same options return messages equal in every field,
\* whatever the wall-clock time of each call.
C4_SameCallSameMessage == probe.calls = 2 => probe.first = probe.second

\* message m, generated for index i under opts, replies to nothing or to the
\* id of the message of an index below i
RepliesEarlier(m, i, opts) ==
  m.replyTo # <<>> => \E k \in 0..(i - 1) : m.replyTo = Drawn[k, opts, spPeople].id

\* draws at both ends of the range of rnd() and in its middle
EdgeDraws == { [hi |-> 0, lo |-> 1], [hi |-> 32768, lo |-> 0], [hi |-> 65535, lo |-> 65535] }

\* whatever the draw of the offset, the reply of index i names the id of an
\* index below i
EveryDrawRepliesEarlier ==
  \A i \in 9..MaxIndex, x \in EdgeDraws :
    \E k \in 0..(i - 1) : MsgId(i - ReplyOffset(i, x)) = MsgId(k + 1)

\* C6: a generated message with a non-null replyTo replies to the id of a
\* message of the pool whose index is strictly less than its own, in the
\* materialized pool, in every message generated lazily, and for every value
\* of the draw of the offset.
C6_ReplyToEarlierMessage ==
  /\ LET pool == messages
     IN \A n \in 1..Len(pool) :
          pool[n].replyTo # <<>> => \E k \in 1..(n - 1) : pool[n].replyTo = pool[k].id
  /\ fetched.calls = 1 =>
        \A j \in 1..Len(fetched.items) :
          RepliesEarlier(fetched.items[j], fetched.start + j - 1, fetched.opts)
  /\ probe.calls > 0 =>
        /\ RepliesEarlier(probe.first, probe.i, probe.opts)
        /\ RepliesEarlier(probe.second, probe.i, probe.opts)
  /\ EveryDrawRepliesEarlier

\* a materialized pool holds a reply, and so does a lazily generated range
C6_Witness ==
  /\ LET pool == messages IN \E n \in 1..Len(pool) : pool[n].replyTo # <<>>
  /\ fetched.calls = 1 /\ fetched.lazy
  /\ \E j \in 1..Len(fetched.items) : fetched.items[j].replyTo # <<>>

\* C7: for the same seed and options, the messages generated lazily for a
\* range inside the pool have, at every position, the text of the slice
\* messages[start .. start+count) of the pool generatePool materialized.
C7_LazyEqualsMaterialized ==
  (fetched.calls = 1 /\ fetched.lazy /\ length > 0 /\ fetched.opts = poolMeta) =>
    LET pool == messages
    IN \A j \in 1..Len(fetched.items) : fetched.items[j].text = pool[fetched.start + j].text

\* the size an accessor answered against: the materialized pool's length, or
\* the declared size of the pool generated on demand
SizeOf(f) == IF f.lazy THEN f.opts.size ELSE length

\* C25: getRange and getPage, on the pool and on a generator view, return only
\* messages of indices i with start <= i < start + count and 0 <= i < size,
\* start and count being the ones asked for; a request whose start is at or
\* beyond size returns an empty list.
C25_RangeWithinWindow ==
  fetched.calls = 1 =>
    /\ \A j \in 1..Len(fetched.items) :
         LET i == fetched.start + j - 1
         IN /\ fetched.from <= i /\ i < fetched.from + fetched.count
            /\ 0 <= i /\ i < SizeOf(fetched)
    /\ fetched.from >= SizeOf(fetched) => fetched.items = <<>>

\* the text of index i before any regeneration (attempts = 0) and after
\* each pass of the dedupe loop
TextAfter(i, attempts, opts, ppl) ==
  IF attempts = 0 THEN Drawn[i, opts, ppl].text
  ELSE Regenerated(i, attempts - 1, opts, ppl)

\* the text stored at index i came out of at most MaxDedupe regenerations,
\* each made because the text before it was in the window, and is itself in
\* the window only when they were all used up
StoredWithin(text, i, keys, opts, ppl) ==
  LET window == Range(keys)
      collides(t) == contentHash(t) \in window
  IN /\ \E a \in 0..MaxDedupe :
          /\ text = TextAfter(i, a, opts, ppl)
          /\ \A b \in 0..(a - 1) : collides(TextAfter(i, b, opts, ppl))
     /\ collides(text) =>
          \A a \in 0..MaxDedupe : collides(TextAfter(i, a, opts, ppl))

\* every index of the pool arr was stored within the budget; the window is
\* rebuilt from the texts stored before it
WithinBudget(arr, opts, ppl) ==
  LET step(s, i) ==
        [ok |-> s.ok /\ StoredWithin(arr[i + 1].text, i, s.keys, opts, ppl),
         keys |-> LruPush(s.keys, contentHash(arr[i + 1].text))]
  IN Loop(step, [ok |-> TRUE, keys |-> <<>>], 0, Len(arr) - 1).ok

\* the pools of the cases followed, each checked once
Budgeted == [opts \in OptionsOf(PoolSizes), ppl \in PeopleLists |->
               Len(Pools[opts, ppl]) = opts.size /\ WithinBudget(Pools[opts, ppl], opts, ppl)]

C26_OutOfRangeIsNull ==
  (got.calls = 1 /\ (got.i < 0 \/ got.i >= got.size)) => got.result = <<>>

\* ------------------------------------------------------ the fatigue stores
\* what the keys can hold when the page loads: nothing, text that is not JSON,
\* null, a value that is not an object, or the entries an earlier visit wrote
Persisted ==
  { Absent, Unparsable, Stringify(JsNull), Stringify(Primitive),
    Stringify(Obj(NoEntries)),
    Stringify(Obj([NoEntries EXCEPT !["ava"] = [v |-> 970, t |-> 0]])) }

InitFatigue ==
  /\ teIdle /\ seIdle /\ mpIdle /\ sgIdle /\ stIdle /\ rnIdle /\ lrIdle /\ gnIdle /\ mbIdle /\ gvIdle /\ pgIdle /\ onIdle
  /\ fsStorage \in Persisted
  /\ psStorage \in Persisted
  /\ fsData = JsNull
  /\ psFatigue = loadFatigue(psStorage)
  /\ fsNow = 0 /\ fsResult = NoResult /\ fsCalls = 0

NextFatigue ==
  \/ get /\ UNCHANGED otherThanFatigue
  \/ increase /\ UNCHANGED otherThanFatigue
  \/ set /\ UNCHANGED otherThanFatigue
  \/ setFatigue /\ UNCHANGED otherThanFatigue
  \/ getFatigue /\ UNCHANGED otherThanFatigue
  \/ reload /\ UNCHANGED otherThanFatigue
  \/ fatigueClock /\ UNCHANGED otherThanFatigue

SpecFatigue == InitFatigue /\ [][NextFatigue]_vars

\* ------------------------------------------ properties of the fatigue stores
InUnit(v) == 0 <= v /\ v <= 1000

\* the entries of a loaded or persisted value lie within [0, 1]
EntriesInUnit(value) ==
  \A id \in Ids : Item(value, id) # NoEntry => InUnit(Item(value, id).v)

\* the amounts FatigueStore.increase is called with by a send
SendAmounts == {0, FatigueIncreasePerSession \div 2}

\* C13: a send (FatigueStore.increase with the amount of a send) never lowers
\* the value FatigueStore.get reads for its actor at that moment, and after
\* any sequence of set, increase and get calls every stored, persisted and
\* returned fatigue value is within [0, 1].
C13_FatigueMonotoneAndBounded ==
  /\ [](/\ EntriesInUnit(fsData)
        /\ fsStorage.kind = "json" => EntriesInUnit(fsStorage.value)
        /\ fsResult.op \in {"get", "increase", "set"} => InUnit(fsResult.value))
  /\ [][ (fsCalls' # fsCalls /\ fsResult'.op = "increase" /\ fsResult'.arg \in SendAmounts) =>
           FatigueGet(Item(fsData', fsResult'.id), fsNow') >=
             FatigueGet(Item(fsLoad(fsData, fsStorage), fsResult'.id), fsNow)
       ]_vars

\* a send that reaches the cap: the stored value was 0.97 and is now 1
C13_Witness ==
  /\ fsResult.op = "increase" /\ fsResult.arg = 0
  /\ fsResult.value = 1000
  /\ Item(fsData, fsResult.id) = [v |-> 1000, t |-> fsNow]

\* C14: a read returns the stored score reduced linearly by the time elapsed
\* since the entry was written, floored at 0, and leaves the entry and the
\* persisted key as they are; a write has persisted the store when it returns.
C14_ReadsDecayWritesPersist ==
  [][ (fsCalls' # fsCalls /\ ~fsResult'.threw) =>
        /\ fsResult'.op = "get" =>
             LET e == Item(fsData', fsResult'.id) IN
             /\ fsResult'.value =
                  IF e = NoEntry THEN 0
                  ELSE Max(0, e.v - (fsNow' - e.t) * FatigueRecoveryPerHour)
             /\ e = Item(fsLoad(fsData, fsStorage), fsResult'.id)
             /\ fsStorage' = fsStorage
        /\ fsResult'.op = "getFatigue" =>
             LET e == Item(psFatigue', fsResult'.id) IN
             /\ e = NoEntry => fsResult'.value = 0
             /\ (e # NoEntry /\ fsNow' = e.t) => fsResult'.value = e.v
             /\ (e # NoEntry /\ fsNow' > e.t /\ e.v > 0) => fsResult'.value < e.v
             /\ psFatigue' = psFatigue /\ psStorage' = psStorage
        /\ fsResult'.op \in {"set", "increase"} => fsStorage' = Stringify(fsData')
        /\ fsResult'.op = "setFatigue" => psStorage' = Stringify(psFatigue')
    ]_vars

\* C15: whatever the fatigue key held when the page loaded, no call of a
\* store throws, and a score written by set, increase or setFatigue is what a
\* read of that actor returns right after.
C15_CorruptKeyIsEmptyStore ==
  [][ fsCalls' # fsCalls =>
        /\ ~fsResult'.threw
        /\ fsResult'.op \in {"set", "increase"} =>
             FatigueGet(Item(fsData', fsResult'.id), fsNow') = fsResult'.value
        /\ fsResult'.op = "setFatigue" =>
             Item(psFatigue', fsResult'.id) = [v |-> fsResult'.value, t |-> fsNow']
    ]_vars

\* -------------------------------------------------------- SyntheticPeople
\* the page has loaded synthetic-people.js; the profile overlay is empty
InitPeople ==
  /\ teIdle /\ seIdle /\ mpIdle /\ fsIdle /\ stIdle /\ rnIdle /\ lrIdle /\ gnIdle /\ mbIdle /\ gvIdle /\ pgIdle /\ onIdle
  /\ sgMeta = DefaultMeta /\ sgPeople = <<>> /\ sgProfiles = NoProfiles
  /\ sgLast = NoRun /\ sgEarlier = NoRun /\ sgRuns = 0

NextPeople ==
  \/ spGeneratePool /\ UNCHANGED otherThanPeople
  \/ spReload /\ UNCHANGED otherThanPeople
  \/ spClearStorage /\ UNCHANGED otherThanPeople

SpecPeople == InitPeople /\ [][NextPeople]_vars

\* display names and roles, index by index
NamesAndRoles(pool) ==
  [i \in 1..Len(pool) |-> <<pool[i].displayName, pool[i].role>>]

\* C5: two generatePool calls with the same size, seedBase and options yield
\* the same display name and the same role at every index, whether the
\* profile overlay was empty or held the profiles an earlier run saved.
C5_SameOptionsSamePeople ==
  (sgRuns >= 2 /\ sgEarlier.meta = sgLast.meta) =>
     NamesAndRoles(sgEarlier.people) = NamesAndRoles(sgLast.people)

\* C8: in the pool generatePool returns no two members share a display name,
\* and no generated member carries the display name of the fixed
\* administrator or of the fixed moderator.
C8_DisplayNamesUnique ==
  /\ \A i, j \in 1..Len(sgPeople) :
        sgPeople[i].displayName = sgPeople[j].displayName => i = j
  /\ \A i \in 1..Len(sgPeople) :
        sgPeople[i].name \notin {AdminKey, ModKey} =>
          sgPeople[i].displayName \notin {FIXED_ADMIN_displayName, FIXED_MOD_displayName}

\* a pool in which ensureUnique renamed a member: its name is the name of an
\* earlier member followed by "_1"
C8_Witness ==
  \E i, j \in 1..Len(sgPeople) :
     /\ i < j
     /\ sgPeople[j].displayName = sgPeople[i].displayName \o <<95, 49>>

InitStore ==
  /\ teIdle /\ seIdle /\ mpIdle /\ fsIdle /\ sgIdle /\ rnIdle /\ lrIdle /\ gnIdle /\ mbIdle /\ gvIdle /\ pgIdle /\ onIdle
  /\ storePeople = <<>> /\ storeSeed = 0 /\ sampleMembers = <<>> /\ storeCalls = 0

NextStore ==
  \/ init /\ UNCHANGED otherThanStore
  \/ populateGlobal /\ UNCHANGED otherThanStore

SpecStore == InitStore /\ [][NextStore]_vars

NoSharedName(arr) == \A i, j \in 1..Len(arr) : arr[i].name = arr[j].name => i = j

\* C9: in the population PeopleStore.init builds, and in the array
\* PeopleStore.populateGlobal installs as window.sampleMembers, no two people
\* share a name.
C9_StoreNamesUnique == NoSharedName(storePeople) /\ NoSharedName(sampleMembers)

\* ------------------------------------------------------- the recency window
InitLru ==
  /\ teIdle /\ seIdle /\ mpIdle /\ fsIdle /\ sgIdle /\ stIdle /\ rnIdle /\ gnIdle /\ mbIdle /\ gvIdle /\ pgIdle /\ onIdle
  /\ \E cap \in 1..MaxCap : lru = makeLRU(cap)
  /\ inserted = <<>> /\ evicted = <<>>

NextLru ==
  \/ lruMake /\ UNCHANGED otherThanLru
  \/ lruPush /\ UNCHANGED otherThanLru

SpecLru == InitLru /\ [][NextLru]_vars

\* the last n distinct values of seq, newest first
RECURSIVE LastDistinct(_, _)
LastDistinct(seq, n) ==
  IF seq = <<>> \/ n = 0 THEN {}
  ELSE LET last == seq[Len(seq)]
           rest == SelectSeq(SubSeq(seq, 1, Len(seq) - 1), LAMBDA e : e # last)
       IN {last} \cup LastDistinct(rest, n - 1)

InitRuns ==
  /\ teIdle /\ seIdle /\ mpIdle /\ fsIdle /\ sgIdle /\ stIdle /\ lrIdle /\ gnIdle /\ mbIdle /\ gvIdle /\ pgIdle /\ onIdle
  /\ \E seed \in RunSeeds : runA = NewRun(seed) /\ runB = NewRun(seed)
  /\ runSteps = 0

NextRuns ==
  \/ bothTick /\ UNCHANGED otherThanRuns
  \/ bothReply /\ UNCHANGED otherThanRuns

SpecRuns == InitRuns /\ [][NextRuns]_vars

\* C24: two runs initialised with the same seed and the same people and driven
\* by the same ticks pick the same actors and generate the same texts.
C24_SameSeedSameStream ==
  runA.actors = runB.actors /\ runA.texts = runB.texts

\* ------------------------------------------------------ seeded generators
MaxDraws == 9
GeneratorSeeds == {0, 1, 2026}

\* what Math.floor(Math.random() * 2 ** 31) >>> 0 can give
RandomStates == {0, 1, 123456789}

\* makeRng(seed) for 0 <= seed < 2^31: let x = seed >>> 0 || (Math.floor(
\* Math.random() * 2 ** 31) >>> 0)
makeRngOr(seed, random) == IF seed = 0 THEN Word(random) ELSE makeRng(seed)

Built(by, seed, random) ==
  [by |-> by, seed |-> seed, n |-> 0,
   x |-> IF by = "xorshift32" THEN xorshift32(seed) ELSE makeRngOr(seed, random)]

\* two generators are built by the same function from the same seed
genBuild ==
  \E by \in {"makeRng", "xorshift32"}, seed \in GeneratorSeeds, ra, rb \in RandomStates :
    /\ genA' = Built(by, seed, ra)
    /\ genB' = Built(by, seed, rb)

\* each of the two is called once
genDraw ==
  /\ genA.by # "none" /\ genA.n < MaxDraws
  /\ genA' = [genA EXCEPT !.x = rnd(@), !.n = @ + 1]
  /\ genB' = [genB EXCEPT !.x = rnd(@), !.n = @ + 1]

InitSeeds ==
  /\ teIdle /\ seIdle /\ mpIdle /\ fsIdle /\ sgIdle /\ stIdle /\ rnIdle /\ lrIdle /\ mbIdle /\ gvIdle /\ pgIdle /\ onIdle
  /\ genA = NoGenerator /\ genB = NoGenerator

NextSeeds ==
  \/ genBuild /\ UNCHANGED otherThanSeeds
  \/ genDraw /\ UNCHANGED otherThanSeeds

SpecSeeds == InitSeeds /\ [][NextSeeds]_vars

\* C29: every seeded generator (makeRng, xorshift32) built from seed 0 starts
\* from one fixed non-zero state: two generators built from seed 0 are in the
\* same state after the same number of draws, and that state is never 0.
C29_ZeroSeedFixedState ==
  (genA.by # "none" /\ genA.seed = 0) =>
    /\ genA.x = genB.x
    /\ genA.x # Word(0) /\ genB.x # Word(0)

\* =========================================================================
\* MessageBank (src/unnamed/part_000, message-bank.js): generateFor,
\* _markUsed, getUniqueMessage.  The bank's generator is seeded from the
\* clock, so what a generation renders is an input: one of the candidates
\* below, each a template index and the fingerprint `${index}:${hash}`.
\* =========================================================================
RecentCap == 1200
DefaultTries == 12
MaxUsage == 14      \* the entries of _usage.recent followed

BankCandidates == { [i |-> 0, f |-> "0:1f3a9c02"], [i |-> 7, f |-> "7:b81e44d0"] }
BankTemplates == { c.i : c \in BankCandidates }

\* this._usage.counts[templateIdx] || 0
CountOf(u, templateIdx) == IF \E e \in Range(u.counts) : e.i = templateIdx
                   THEN (CHOOSE e \in Range(u.counts) : e.i = templateIdx).n ELSE 0

\* _markUsed(templateIdx, fingerprint)
markUsed(u, templateIdx, f) ==
  LET others == SelectSeq(u.counts, LAMBDA e : e.i # templateIdx)
      recent == <<[i |-> templateIdx, f |-> f]>> \o u.recent
  IN [counts |-> Append(others, [i |-> templateIdx, n |-> CountOf(u, templateIdx) + 1]),
      recent |-> IF Len(recent) > RecentCap THEN SubSeq(recent, 1, RecentCap) ELSE recent]

\* generateFor(person, opts) when it renders candidate c: the usage after it
generateFor(u, c) == markUsed(u, c.i, c.f)

\* this._usage.recent.find(r => r.f === out.fingerprint)
found(u, msg) == \E k \in 1..Len(u.recent) : u.recent[k].f = msg.f

\* the loop of getUniqueMessage from pass i on; cands are the candidates the
\* generations render, in order: the usage left, the message returned and the
\* number of generations made
RECURSIVE Tries(_, _, _, _)
Tries(u, cands, i, tries) ==
  IF i < tries
  THEN LET after == generateFor(u, cands[i + 1])
       IN IF ~found(after, cands[i + 1])
          THEN [usage |-> after, out |-> cands[i + 1], generated |-> i + 1]
          ELSE Tries(after, cands, i + 1, tries)
  ELSE [usage |-> generateFor(u, cands[i + 1]), out |-> cands[i + 1], generated |-> i + 1]

\* MessageBank.getUniqueMessage(person, {tries})
getUniqueMessage ==
  \E asked \in {0, 1, 2} :
    LET tries == IF asked # 0 THEN asked ELSE DefaultTries
    IN /\ Len(bankUsage.recent) + tries + 1 <= MaxUsage
       /\ \E cands \in [1..(tries + 1) -> BankCandidates] :
            LET run == Tries(bankUsage, cands, 0, tries)
            IN /\ bankUsage' = run.usage
               /\ bankCall' = [calls |-> 1, before |-> bankUsage.recent, first |-> cands[1],
                               out |-> run.out, generated |-> run.generated]

\* the tab is closed and opened again: the usage is loaded as it was saved
bankReload ==
  /\ bankCall.calls = 1
  /\ bankCall' = [calls |-> 0]
  /\ UNCHANGED bankUsage

InitBank ==
  /\ teIdle /\ seIdle /\ mpIdle /\ fsIdle /\ sgIdle /\ stIdle /\ rnIdle /\ lrIdle /\ gnIdle /\ gvIdle /\ pgIdle /\ onIdle
  /\ bankUsage = NoUsage /\ bankCall = [calls |-> 0]

NextBank ==
  \/ getUniqueMessage /\ UNCHANGED otherThanBank
  \/ bankReload /\ UNCHANGED otherThanBank

SpecBank == InitBank /\ [][NextBank]_vars

\* C31: getUniqueMessage returns the first generated candidate whose
\* fingerprint was not in the recent-usage list before it was generated: a
\* call whose first candidate is fresh makes exactly one generation and
\* records exactly one usage entry.
C31_FreshFirstCandidateReturned ==
  (bankCall.calls = 1 /\ \A k \in 1..Len(bankCall.before) : bankCall.before[k].f # bankCall.first.f) =>
    /\ bankCall.generated = 1
    /\ bankCall.out = bankCall.first
    /\ Len(bankUsage.recent) = Len(bankCall.before) + 1

\* =========================================================================
\* A typing session whose controller is never used: only its timers act.
\* Every pending timer fires in the end (setTimeout, requestAnimationFrame),
\* and a branch guarded by rng() that is open again and again is taken in the
\* end: stepOnce moves on to the next character or to the think time, and a
\* ghost pause's timer leaves the session not abandoned.
NextUntouched ==
  \/ tickTimer /\ UNCHANGED otherThanTyping
  \/ stepOnce /\ UNCHANGED otherThanTyping
  \/ charTimer /\ UNCHANGED otherThanTyping
  \/ punctTimer /\ UNCHANGED otherThanTyping
  \/ retypeTimer /\ UNCHANGED otherThanTyping
  \/ ghostTimer /\ UNCHANGED otherThanTyping
  \/ finalTimer /\ UNCHANGED otherThanTyping
  \/ pasteTimer /\ UNCHANGED otherThanTyping

\* stepOnce takes the branch that sets the character timer or the think time
stepOnward ==
  /\ stepOnce
  /\ \E t \in BagToSet(timers') : t.kind \in {"char", "final"} /\ ~Pending(t)

TimersFire ==
  /\ WF_vars(tickTimer /\ UNCHANGED otherThanTyping)
  /\ WF_vars(stepOnce /\ UNCHANGED otherThanTyping)
  /\ WF_vars(charTimer /\ UNCHANGED otherThanTyping)
  /\ WF_vars(punctTimer /\ UNCHANGED otherThanTyping)
  /\ WF_vars(retypeTimer /\ UNCHANGED otherThanTyping)
  /\ WF_vars(ghostTimer /\ UNCHANGED otherThanTyping)
  /\ WF_vars(finalTimer /\ UNCHANGED otherThanTyping)
  /\ WF_vars(pasteTimer /\ UNCHANGED otherThanTyping)

BranchesTaken == SF_vars(stepOnward /\ UNCHANGED otherThanTyping)

SpecUntouched == Init /\ [][NextUntouched]_vars /\ TimersFire /\ BranchesTaken

\* C32: with no controller call, fair timers and fair random branches, a
\* session ends up having emitted exactly one of typing:send and
\* typing:abandoned, with no timer pending, and from its terminal event on no
\* timer is scheduled.
C32_EndsWithOneTerminal ==
  /\ <>[](terminals = 1 /\ ~running /\ timers = EmptyBag)
  /\ [][terminals >= 1 => \A t \in BagToSet(timers') : CopiesIn(t, timers') <= CopiesIn(t, timers)]_vars

\* a session of more than two characters that was typed, corrected and sent
C32_Witness ==
  /\ calls = 0 /\ terminals = 1 /\ sends = 1 /\ timers = EmptyBag
  /\ ~likelyCopyPaste /\ idx = Len(chars) /\ idx > 2 /\ normalTyped

\* C33: after pause(true) on a running session, no typing:progress and no
\* typing:send is emitted until pause(false), whatever timers were pending
\* when it was called.
C33_NothingTypedWhilePaused ==
  held => ~EmitsNow({"typing:progress", "typing:send"})

\* C34: the orchestrator starts a typing session from its own scheduling (an
\* interval tick, a start-up spawn, a spike reply) only while _running is
\* true: a step taken while the engine is stopped starts no session, unless
\* it is triggerManual.
C34_NoSessionWhileStopped ==
  [][ (~simRunning /\ ~simRunning' /\ Len(sessions') > Len(sessions)) =>
        sessions'[Len(sessions')].via = "manual"
    ]_vars

\* C35: after any sequence of start() and stop() at most one interval tick
\* timer exists, and _intervalId is not null exactly when _running is true;
\* start() on a running engine and stop() on a stopped one change nothing.
C35_OneIntervalTimer ==
  /\ [](intervalTimers <= 1 /\ (intervalId <=> simRunning) /\ (intervalTimers = 1 <=> simRunning))
  /\ [][ (simRunning /\ start /\ UNCHANGED otherThanEngine) => UNCHANGED seVars ]_vars
  /\ [][ (~simRunning /\ stop /\ UNCHANGED otherThanEngine) => UNCHANGED seVars ]_vars

\* an engine started again after a stop: one timer armed, the first one cleared
C35_Witness ==
  simRunning /\ intervalTimers = 1 /\ stopMark = -1 /\ seedTimers = 2
    /\ \E sid \in 1..Len(sessions) : sessions[sid].st = "stopped"

\* =========================================================================
\* The streams of a generator view.  MessagePool.createGeneratorView is
\* defined twice: in src/unnamed/part_000 its view has streamToUI, whose
\* `stopped` flag is a variable of the view's closure; in src/typing-engine.js
\* its view has stream, whose `stopped` flag is a variable of the call.  A
\* stream emits the message _generateMessageForIndex yields for its idx,
\* followed here by that idx.
MaxStreams == 2     \* streams started
MaxEmits == 2       \* messages one stream emits
StreamSize == 2     \* the size of the view

Stream(by, startIndex) ==
  [by |-> by, timer |-> TRUE, stopped |-> FALSE,
   idx |-> clamp(startIndex, 0, Max(0, StreamSize - 1)),
   emitted |-> 0, halted |-> FALSE]

\* view.streamToUI(opts) of part_000: stopped = false; setInterval(...)
viewStreamToUI ==
  /\ Len(streams) < MaxStreams
  /\ \E startIndex \in 0..StreamSize :
       streams' = Append(streams, Stream("streamToUI", startIndex))
  /\ viewStopped' = FALSE
  /\ ticked' = NoTick

\* view.stream(opts) of typing-engine.js: let stopped = false; setInterval(...)
viewStream ==
  /\ Len(streams) < MaxStreams
  /\ \E startIndex \in 0..StreamSize :
       streams' = Append(streams, Stream("stream", startIndex))
  /\ ticked' = NoTick
  /\ UNCHANGED viewStopped

\* handle.stop(): stopped = true; clearInterval(timer)
handleStop ==
  \E k \in 1..Len(streams) :
    /\ ~streams[k].halted
    /\ streams' = [streams EXCEPT ![k].timer = FALSE, ![k].halted = TRUE,
                                  ![k].stopped = (streams[k].by = "stream" \/ @)]
    /\ viewStopped' = (streams[k].by = "streamToUI" \/ viewStopped)
    /\ ticked' = NoTick

\* the interval callback of a stream whose timer is armed
streamTick ==
  \E k \in 1..Len(streams) :
    /\ streams[k].timer
    /\ IF (IF streams[k].by = "streamToUI" THEN viewStopped ELSE streams[k].stopped)
       THEN \* if (stopped) return
            /\ ticked' = [stream |-> k, emitted |-> FALSE, halted |-> streams[k].halted]
            /\ UNCHANGED streams
       ELSE /\ streams[k].emitted < MaxEmits
            /\ ticked' = [stream |-> k, emitted |-> TRUE, halted |-> streams[k].halted]
            /\ \E restart \in 0..(Min(1000, StreamSize) - 1) :
                 streams' = [streams EXCEPT
                   ![k].emitted = @ + 1,
                   ![k].idx = IF @ + 1 >= StreamSize THEN restart ELSE @ + 1]
    /\ UNCHANGED viewStopped

InitStreams ==
  /\ teIdle /\ seIdle /\ mpIdle /\ fsIdle /\ sgIdle /\ stIdle /\ rnIdle /\ lrIdle /\ gnIdle /\ mbIdle /\ pgIdle /\ onIdle
  /\ viewStopped = FALSE /\ streams = <<>> /\ ticked = NoTick

NextStreams ==
  \/ viewStreamToUI /\ UNCHANGED otherThanStreams
  \/ viewStream /\ UNCHANGED otherThanStreams
  \/ handleStop /\ UNCHANGED otherThanStreams
  \/ streamTick /\ UNCHANGED otherThanStreams

SpecStreams == InitStreams /\ [][NextStreams]_vars

\* C36: the streams started from one generator view are independent: stop()
\* on a handle stops that stream for good, and neither stops nor suspends
\* another stream: the interval callback of a stream whose handle was not
\* stopped emits, and a stream whose handle was stopped has no timer left.
C36_StreamsIndependent ==
  /\ \A k \in 1..Len(streams) : streams[k].halted => ~streams[k].timer
  /\ (ticked.stream # 0 /\ ~ticked.halted) => ticked.emitted

\* =========================================================================
\* The rolling memory of SimulationEngine: _generateMessageFor called again
\* and again, by whatever caller, on an engine whose _seenLimit was set.
MaxSeenKept == 4    \* the largest _seenLimit tried

\* one call of _generateMessageFor(person)
generateOne ==
  /\ \E text \in AllTexts : generateMessageFor(text)
  /\ UNCHANGED <<simRunning, intervalId, intervalTimers, docHidden, typingControllers,
                 sessions, cleanupTimers, seedTimers, spikeTimers, lastAdminSpike,
                 simNow, delivered, stopMark, tickProcessed, setup>>

InitSeen ==
  /\ teIdle /\ mpIdle /\ fsIdle /\ sgIdle /\ stIdle /\ rnIdle /\ lrIdle /\ gnIdle /\ mbIdle /\ gvIdle /\ pgIdle /\ onIdle
  /\ simRunning = FALSE /\ intervalId = FALSE /\ intervalTimers = 0 /\ docHidden = FALSE
  /\ hasTypingEngine = TRUE /\ simulateThrows = FALSE /\ bankThrows = FALSE
  /\ people = Members
  /\ seenLimit \in 1..MaxSeenKept
  /\ seenSet = {} /\ seenQueue = <<>> /\ typingControllers = {}
  /\ sessions = <<>> /\ cleanupTimers = {} /\ seedTimers = 0 /\ spikeTimers = 0
  /\ lastAdminSpike = 0 /\ simNow = Epoch /\ delivered = <<>> /\ stopMark = -1
  /\ tickProcessed = FALSE /\ sessionCap = MaxSessions

NextSeen == generateOne /\ UNCHANGED otherThanEngine

SpecSeen == InitSeen /\ [][NextSeen]_vars

\* C37: after any sequence of _generateMessageFor calls _seenSet holds exactly
\* the texts of _seenQueue and the queue holds at most _seenLimit entries; and
\* the text a call returns (the one it pushes last) was not in _seenSet before
\* the call, unless the candidate and its mutations all collided.
C37_SeenSetIsSeenQueue ==
  /\ [](seenSet = Range(seenQueue) /\ Len(seenQueue) <= seenLimit)
  /\ [][ seenQueue'[Len(seenQueue')] \in seenSet =>
           /\ seenQueue'[Len(seenQueue')].tag # 0
           /\ Text(seenQueue'[Len(seenQueue')].tpl, 0) \in seenSet ]_vars

\* =========================================================================
\* PeopleStore.populateGlobal, its extension loop followed pass by pass: a
\* page that lets populateGlobal install window.sampleMembers and later asks
\* for more members.
MaxPasses == 3000    \* passes of the extension loop followed in one call
MaxFillCalls == 2    \* populateGlobal calls followed pass by pass
FillTargets == {SmallPopulation, MaxFill, DefaultFillCount}

\* every name createPerson can produce without honorPrefix
AllNames ==
  { <<cryptoHandles[h]>> : h \in 1..Len(cryptoHandles) }
    \cup { <<firstNames[f], lastNames[l]>> : f \in 1..Len(firstNames), l \in 1..Len(lastNames) }

\* the while condition of the extension loop
Missing == Len(sampleMembers) + Len(filling.toAdd) < filling.fillTo

\* populateGlobal({fillTo, replace}) up to its loop: the branch that replaces
\* window.sampleMembers returns at once, the other one enters the loop
populateCall ==
  /\ ~filling.on
  /\ storeCalls < MaxFillCalls
  /\ \E fillTo \in FillTargets, replace \in BOOLEAN, clockSeed \in StoreSeeds :
       LET seed == IF storePeople = <<>> THEN clockSeed ELSE storeSeed
           ppl == IF storePeople = <<>>
                  THEN InitialPeople(Min(DefaultFillCount, fillTo), clockSeed)
                  ELSE storePeople
       IN /\ storeSeed' = seed
          /\ storePeople' = ppl
          /\ IF Len(sampleMembers) < SmallPopulation \/ replace
             THEN /\ sampleMembers' = Padded(ppl, seed, fillTo)
                  /\ UNCHANGED filling
             ELSE /\ filling' = [on |-> TRUE, fillTo |-> fillTo,
                                 names |-> NamesOf(sampleMembers), toAdd |-> <<>>,
                                 offset |-> Len(sampleMembers), passes |-> 0]
                  /\ UNCHANGED sampleMembers
  /\ storeCalls' = storeCalls + 1

\* one pass of the extension loop
populatePass ==
  /\ filling.on /\ Missing /\ Len(filling.toAdd) <= MaxToAdd
  /\ filling.passes < MaxPasses
  /\ LET candidate == generateBatch(storeSeed, filling.offset)
     IN filling' = [filling EXCEPT
          !.offset = @ + 1,
          !.passes = @ + 1,
          !.toAdd = IF candidate.name \notin filling.names THEN Append(@, candidate) ELSE @,
          !.names = @ \cup {candidate.name}]
  /\ UNCHANGED <<storePeople, storeSeed, sampleMembers, storeCalls>>

\* the loop is left: existing.push(...toAdd); window.sampleMembers = existing
populateReturn ==
  /\ filling.on /\ (~Missing \/ Len(filling.toAdd) > MaxToAdd)
  /\ sampleMembers' = sampleMembers \o filling.toAdd
  /\ filling' = NoFill
  /\ UNCHANGED <<storePeople, storeSeed, storeCalls>>

InitFill ==
  /\ teIdle /\ seIdle /\ mpIdle /\ fsIdle /\ sgIdle /\ rnIdle /\ lrIdle /\ gnIdle /\ mbIdle /\ gvIdle /\ onIdle
  /\ storePeople = <<>> /\ storeSeed = 0 /\ sampleMembers = <<>> /\ storeCalls = 0
  /\ filling = NoFill

NextFill ==
  \/ populateCall /\ UNCHANGED otherThanFilling
  \/ populatePass /\ UNCHANGED otherThanFilling
  \/ populateReturn /\ UNCHANGED otherThanFilling

SpecFill == InitFill /\ [][NextFill]_vars

\* C38: populateGlobal terminates for every fillTo and every existing
\* window.sampleMembers: its extension loop never reaches a pass from which
\* no later pass can end it, with members still missing, the guard on the
\* length of toAdd not reached, and every name createPerson can produce taken
\* (each later pass then draws a taken name and changes nothing but offset).
C38_PopulateGlobalReturns ==
  ~(filling.on /\ Missing /\ Len(filling.toAdd) <= MaxToAdd /\ AllNames \subseteq filling.names)

\* =========================================================================
\* PeopleStore.sampleOnline(n): the roulette over the members' scores.  A
\* score is kept in units of 0.00001: 1 / (1 + ln(age)) to three decimals,
\* energy and the role factor to one.  No setFatigue call was made, so that
\* the fatigue of every member is 0; Date.now() is read once per call.
MaxCrowd == 2         \* members of the store
MaxOnlineCalls == 2   \* sampleOnline calls followed
RandomDen == 256      \* Math.random() is followed in 256ths
RandomUnits == {0, 128, 255}
OnlineWindow == 44000 \* the larger offset tried, in ms, of lastActive = nowTs - Math.floor(Math.random() * 45000)
Offsets == {0, OnlineWindow}
ScoreCap == 500000    \* clamp(..., 0, 5)

\* 1000 * ln(age) for the ages, in seconds, a member can have here
LogMilli(age) == IF age = 44 THEN 3784 ELSE IF age = 88 THEN 4477 ELSE 0

RoleFactor(role) == IF role = "ADMIN" THEN 18 ELSE IF role = "MOD" THEN 14 ELSE 10

\* the score of member p at time t
Score(p, t) ==
  LET age == Max(1, (t - p.lastActive) \div 1000)
      recency == 1000000 \div (1000 + LogMilli(age))
  IN clamp(recency * p.energy * RoleFactor(p.role), 0, ScoreCap)

RECURSIVE ScoreSum(_, _)
ScoreSum(scored, upTo) == IF upTo = 0 THEN 0 ELSE scored[upTo].score + ScoreSum(scored, upTo - 1)

\* the inner loop: the first place j at which pickVal, less the scores up to
\* j, is at most 0; 0 when there is none.  pickVal is r / RandomDen * total
PickedAt(scored, r, total) ==
  LET hits == { j \in 1..Len(scored) : r * total <= RandomDen * ScoreSum(scored, j) }
  IN IF hits = {} THEN 0 ELSE CHOOSE j \in hits : \A k \in hits : j <= k

\* scored.splice(j, 1)
Spliced(scored, j) == SubSeq(scored, 1, j - 1) \o SubSeq(scored, j + 1, Len(scored))

\* the outer loop: i < Math.min(n, people.length), one draw per round
RECURSIVE Roulette(_, _, _, _, _)
Roulette(scored, draws, i, total, selection) ==
  IF i > Len(draws) THEN selection
  ELSE LET j == PickedAt(scored, draws[i], IF total = 0 THEN 1 ELSE total)
       IN IF j = 0 THEN Roulette(scored, draws, i + 1, total, selection)
          ELSE Roulette(Spliced(scored, j), draws, i + 1, total, Append(selection, scored[j].p))

\* PeopleStore.sampleOnline(n)
sampleOnline ==
  /\ sampled.calls < MaxOnlineCalls
  /\ \E n \in {1, 2, MaxCrowd + 1} :
       IF crowd = <<>>
       THEN /\ sampled' = [calls |-> sampled.calls + 1, n |-> n, selection |-> <<>>, before |-> <<>>]
            /\ UNCHANGED crowd
       ELSE LET scored == [k \in 1..Len(crowd) |-> [p |-> k, score |-> Score(crowd[k], crowdNow)]]
                total == ScoreSum(scored, Len(scored))
            IN \E draws \in [1..Min(n, Len(crowd)) -> RandomUnits] :
                 LET selection == Roulette(scored, draws, 1, total, <<>>)
                 IN \E offsets \in [1..Len(selection) -> Offsets] :
                      /\ crowd' = [k \in 1..Len(crowd) |->
                           IF \E s \in 1..Len(selection) : selection[s] = k
                           THEN [crowd[k] EXCEPT !.lastActive =
                                   crowdNow - offsets[CHOOSE s \in 1..Len(selection) : selection[s] = k]]
                           ELSE crowd[k]]
                      /\ sampled' = [calls |-> sampled.calls + 1, n |-> n, selection |-> selection,
                                     before |-> [k \in 1..Len(crowd) |-> crowd[k].lastActive]]
  /\ UNCHANGED crowdNow

\* time passes between two calls
onlineClock ==
  /\ crowdNow < 2 * OnlineWindow
  /\ crowdNow' = crowdNow + OnlineWindow
  /\ UNCHANGED <<crowd, sampled>>

\* a store of up to MaxCrowd members, last active when the page loaded
InitOnline ==
  /\ teIdle /\ seIdle /\ mpIdle /\ fsIdle /\ sgIdle /\ stIdle /\ rnIdle /\ lrIdle /\ gnIdle /\ mbIdle /\ gvIdle /\ pgIdle
  /\ crowdNow = OnlineWindow
  /\ \E size \in 0..MaxCrowd :
       crowd \in [1..size -> [role : {"ADMIN", "VERIFIED"}, energy : {3, 9},
                              lastActive : {0}]]
  /\ sampled = NoSample

NextOnline ==
  \/ sampleOnline /\ UNCHANGED otherThanOnline
  \/ onlineClock /\ UNCHANGED otherThanOnline

SpecOnline == InitOnline /\ [][NextOnline]_vars

\* C39: sampleOnline(n) returns exactly min(n, population size) distinct
\* members, whatever the random draws are, and sets lastActive of exactly
\* those members: everyone else keeps the lastActive they had.
C39_SampleOnlineSize ==
  sampled.calls > 0 =>
    /\ Len(sampled.selection) = Min(sampled.n, Len(crowd))
    /\ \A s, t \in 1..Len(sampled.selection) :
         sampled.selection[s] = sampled.selection[t] => s = t
    /\ \A k \in 1..Len(crowd) :
         (\A s \in 1..Len(sampled.selection) : sampled.selection[s] # k) =>
            crowd[k].lastActive = sampled.before[k]

====
